---- MODULE Spec2Model ----
(***************************************************************************)
(* Model of homie's job path: the TCP worker (homie/worker.py), the        *)
(* container executor (homie/container.py), job authentication             *)
(* (homie/jobs.py) and the submission client (homie/client.py).            *)
(*                                                                         *)
(* Every accepted TCP connection is served by its own handler thread; a    *)
(* handler is a sequence of steps, one action per step that touches state  *)
(* another thread can see.  Docker, the file system and the peers are the  *)
(* environment: their outcomes are nondeterministic choices.               *)
(***************************************************************************)
EXTENDS Integers, Sequences, FiniteSets, TLC

\* ------------------------------------------------------------- bounds
MaxConns == 2
MaxJobs == 1
MaxChunks == 2
MaxTicks == 1
MaxTime == 13
MaxThreads == 2
MaxAppends == 3
MaxHistTime == 1
MaxFileLen == 2
MaxStarts == 3
MaxEvents == 2
MaxIntervals == 3
MaxLines == 3
MaxCallbacks == 4
\* history.py keeps 1000 entries; the model keeps this many, so that a file
\* longer than the limit is within reach
MAX_HISTORY_ENTRIES == 2

\* -------------------------------------------------- program constants
AuthWindow == 300
ContainerTimeout == 600
ClientTimeout == 600
MaxPayload == 104857600
AliveWindow == 10
DefaultPeerTimeout == 10
HeartbeatInterval == 2
PidsLimit == 100
NanoCpus == 1000000000

\* one step of the clock: long enough for every deadline to pass
TickStep == ContainerTimeout + 1

Conns == 1..MaxConns
JobIds == {"j1", "j2"}
Names == {"a", "c"}
Secrets == {"s", "other"}
GroupSecret == "s"

\* what can be wrong with a request: its timestamp (by how much it is off the
\* receiver's clock), its signature, its syntax, its declared length
Faults ==
  { "none", "old", "edge old", "edge new", "new", "wrong secret", "other job",
    "malformed", "oversize" }
Offset(fault) ==
  CASE fault = "old" -> 0 - (AuthWindow + 1)
    [] fault = "edge old" -> 0 - AuthWindow
    [] fault = "edge new" -> AuthWindow
    [] fault = "new" -> AuthWindow + 1
    [] OTHER -> 0

NoJob == [sender |-> "none", conn |-> 0]
NoError == "null"
NoResult ==
  [ job_id |-> "none", exit_code |-> 0, stdout |-> <<>>, stderr |-> <<>>,
    output_files |-> <<>>, runtime_seconds |-> 0, error |-> NoError ]

\* The text the program under test writes to its log: chunk i of the stream.
ChunkData == <<"a", "b", "c">>

Abs(x) == IF x < 0 THEN 0 - x ELSE x

\* ------------------------------------------------------ bytes on the wire
CharByte(ch) ==
  CASE ch = "a" -> 97 [] ch = "b" -> 98 [] ch = "c" -> 99
    [] ch = "O" -> 79 [] ch = "E" -> 69 [] ch = "R" -> 82
    [] ch = "0" -> 48 [] ch = "1" -> 49

ByteChar(b) ==
  CASE b = 97 -> "a" [] b = 98 -> "b" [] b = 99 -> "c" [] OTHER -> "?"

RECURSIVE EncodeText(_)
EncodeText(t) ==
  IF t = <<>> THEN <<>> ELSE <<CharByte(Head(t))>> \o EncodeText(Tail(t))

RECURSIVE DecodeText(_)
DecodeText(bs) ==
  IF bs = <<>> THEN <<>> ELSE <<ByteChar(Head(bs))>> \o DecodeText(Tail(bs))

\* n.to_bytes(4, "big")
ToBytes4(n) ==
  << (n \div 16777216) % 256, (n \div 65536) % 256, (n \div 256) % 256, n % 256 >>

\* int.from_bytes(b, "big")
FromBytes4(b) == b[1] * 16777216 + b[2] * 65536 + b[3] * 256 + b[4]

\* -------------------------------------------------------- authentication
compute_auth_hmac(job_id, timestamp, group_secret) ==
  <<group_secret, job_id, timestamp>>

verify_auth_hmac(job_id, timestamp, provided_hmac, group_secret) ==
  compute_auth_hmac(job_id, timestamp, group_secret) = provided_hmac

\* (mutant) the signature is not checked
deserialize_job_NoHmacCheck(r, clock) ==
  IF r.malformed THEN "malformed"
  ELSE IF Abs(clock - r.timestamp) > AuthWindow
    THEN "Job authentication failed - timestamp too old"
  ELSE "ok"

\* (mutant) the window is closed at its edge: >= for >
deserialize_job_EdgeRejected(r, clock) ==
  IF r.malformed THEN "malformed"
  ELSE IF ~verify_auth_hmac(r.job_id, r.timestamp, r.hmac, GroupSecret)
    THEN "Job authentication failed - invalid HMAC"
  ELSE IF Abs(clock - r.timestamp) >= AuthWindow
    THEN "Job authentication failed - timestamp too old"
  ELSE "ok"

\* The error of deserialize_job, or "ok"
deserialize_job(r, clock) ==
  IF r.malformed THEN "malformed"
  ELSE IF ~verify_auth_hmac(r.job_id, r.timestamp, r.hmac, GroupSecret)
    THEN "Job authentication failed - invalid HMAC"
  ELSE IF Abs(clock - r.timestamp) > AuthWindow
    THEN "Job authentication failed - timestamp too old"
  ELSE "ok"

\* ---------------------------------------------------------------- base64
\* base64.b64encode: three bytes become four symbols 0..63; 64 is the
\* padding '='
RECURSIVE b64encode(_)
b64encode(bs) ==
  IF bs = <<>> THEN <<>>
  ELSE IF Len(bs) = 1
    THEN << bs[1] \div 4, (bs[1] % 4) * 16, 64, 64 >>
  ELSE IF Len(bs) = 2
    THEN << bs[1] \div 4, (bs[1] % 4) * 16 + bs[2] \div 16,
            (bs[2] % 16) * 4, 64 >>
  ELSE << bs[1] \div 4, (bs[1] % 4) * 16 + bs[2] \div 16,
          (bs[2] % 16) * 4 + bs[3] \div 64, bs[3] % 64 >>
       \o b64encode(SubSeq(bs, 4, Len(bs)))

\* (mutant) the encoded text is taken for the bytes
b64decode_NotDecoded(t) == t

\* base64.b64decode of well-formed text
RECURSIVE b64decode(_)
b64decode(t) ==
  IF Len(t) < 4 THEN <<>>
  ELSE LET b1 == t[1] * 4 + t[2] \div 16
           b2 == (t[2] % 16) * 16 + t[3] \div 4
           b3 == (t[3] % 4) * 64 + t[4]
       IN (IF t[3] = 64 THEN <<b1>>
           ELSE IF t[4] = 64 THEN <<b1, b2>>
           ELSE <<b1, b2, b3>>)
          \o b64decode(SubSeq(t, 5, Len(t)))

\* ---------------------------------------------------- result serialization
ErrorTexts ==
  << "null", "Execution timed out", "Docker image not found", "start failed",
     "Job authentication failed - invalid HMAC",
     "Job authentication failed - timestamp too old",
     "Job payload too large", "malformed", "Worker error",
     "Connection closed by peer", "Failed to receive result from peer",
     "Connection timed out", "parse error", "Unknown message type" >>
JobIdTexts == <<"j1", "j2", "error">>
FileNames == <<"out.txt", "m.bin">>

IndexOf(seq, x) == CHOOSE i \in 1..Len(seq) : seq[i] = x

\* a text or a byte string with its length in front
Sized(bs) == <<Len(bs)>> \o bs

\* the entries of output_files, each value base64-encoded
RECURSIVE SerializeFiles(_, _)
SerializeFiles(files, i) ==
  IF i > Len(FileNames) THEN <<>>
  ELSE (IF FileNames[i] \in DOMAIN files
        THEN <<i>> \o Sized(b64encode(files[FileNames[i]]))
        ELSE <<>>)
       \o SerializeFiles(files, i + 1)

\* json.dumps of a JobResult: a fixed layout
\* job_id, sign of exit_code, |exit_code|, error, runtime_seconds, stdout,
\* stderr, number of output files, output files
serialize_result(res) ==
  << IndexOf(JobIdTexts, res.job_id),
     IF res.exit_code < 0 THEN 45 ELSE 43,
     Abs(res.exit_code),
     IndexOf(ErrorTexts, res.error),
     res.runtime_seconds >>
  \o Sized(EncodeText(res.stdout))
  \o Sized(EncodeText(res.stderr))
  \o <<Cardinality(DOMAIN res.output_files)>>
  \o SerializeFiles(res.output_files, 1)

\* where k serialized files starting at pos end (the next position), or 0
\* when the bytes do not hold them
RECURSIVE FilesEnd(_, _, _)
FilesEnd(bs, pos, k) ==
  IF k = 0 THEN pos
  ELSE IF pos + 1 > Len(bs) THEN 0
  ELSE IF bs[pos] \notin 1..Len(FileNames) THEN 0
  ELSE IF pos + 1 + bs[pos + 1] > Len(bs) THEN 0
  ELSE FilesEnd(bs, pos + 2 + bs[pos + 1], k - 1)

\* the (name, contents) pairs of k serialized files starting at pos
RECURSIVE ParseFiles(_, _, _)
ParseFiles(bs, pos, k) ==
  IF k = 0 THEN {}
  ELSE { << FileNames[bs[pos]],
            b64decode(SubSeq(bs, pos + 2, pos + 1 + bs[pos + 1])) >> }
       \cup ParseFiles(bs, pos + 2 + bs[pos + 1], k - 1)

WellFormedResult(bs) ==
  /\ Len(bs) >= 8
  /\ bs[1] \in 1..Len(JobIdTexts)
  /\ bs[2] \in {43, 45}
  /\ bs[4] \in 1..Len(ErrorTexts)
  /\ 7 + bs[6] <= Len(bs)
  /\ 8 + bs[6] + bs[7 + bs[6]] <= Len(bs)
  /\ LET files == 8 + bs[6] + bs[7 + bs[6]]
     IN FilesEnd(bs, files + 1, bs[files]) = Len(bs) + 1

\* json.loads + JobResult(...); "parse error" stands for the exception
deserialize_result(bs) ==
  IF WellFormedResult(bs)
  THEN LET err == 7 + bs[6]
           files == 8 + bs[6] + bs[err]
           pairs == ParseFiles(bs, files + 1, bs[files])
       IN [ job_id |-> JobIdTexts[bs[1]],
            exit_code |-> IF bs[2] = 45 THEN 0 - bs[3] ELSE bs[3],
            stdout |-> DecodeText(SubSeq(bs, 7, 6 + bs[6])),
            stderr |-> DecodeText(SubSeq(bs, err + 1, err + bs[err])),
            output_files |-> [n \in {p[1] : p \in pairs} |->
                                (CHOOSE p \in pairs : p[1] = n)[2]],
            runtime_seconds |-> bs[5],
            error |-> ErrorTexts[bs[4]] ]
  ELSE [ job_id |-> "none", exit_code |-> 0 - 1, stdout |-> <<>>,
         stderr |-> <<>>, output_files |-> <<>>, runtime_seconds |-> 0,
         error |-> "parse error" ]

\* JobResult(job_id=, exit_code=, stdout=, stderr="", error=): output_files
\* and runtime_seconds keep their defaults
JobResult(job_id, exit_code, stdout, error) ==
  [ job_id |-> job_id, exit_code |-> exit_code, stdout |-> stdout,
    stderr |-> <<>>, output_files |-> <<>>, runtime_seconds |-> 0,
    error |-> error ]


\* ------------------------------------------------------------------ state
VARIABLES
  now,                 \* time.time()
  ticks,               \* clock steps taken (bounded)
  pc,                  \* position of the handler thread of each connection
  req,                 \* the request read from each connection
  sent,                \* the bytes the worker wrote on each connection
  peerOpen,            \* the peer has not closed its end
  running_jobs,        \* Worker._running_jobs: job_id -> RunningJob
  running_containers,  \* ContainerExecutor._running_containers: job_id -> container
  cont,                \* the container of each execution, as Docker sees it
  workspace,           \* the workspace directory of each execution
  exec,                \* locals of execute_streaming, per handler
  result,              \* the JobResult of each handler (NoResult: None)
  history,             \* ~/.homie/job_history.jsonl on the worker's host
  status,              \* last value passed to on_status_changed
  cres,                \* what Client.run_job returned, per connection
  callbacks,           \* what Client.run_job passed to the caller's callbacks
  auth                 \* the request the last step authenticated (NoAuth: none)

\* State of the other components: the calling side of the client and the
\* functions applied to one input at a time.
VARIABLES
  call,                \* the operation applied and its input (NoCall: none yet)
  ret,                 \* what the operation returned
  peers,               \* Discovery._peers: name -> Peer (NoPeer: no entry)
  peer_timeout,        \* config.peer_timeout
  sending,             \* the other member of the group is up and broadcasting
  stopped_at,          \* when it went down
  next_pass,           \* when the cleanup thread wakes up next
  notified,            \* calls made to on_peer_joined and on_peer_left
  dgram                \* the datagram the last step handled (NoDgram: none)

\* State of the threads that call the history module.
VARIABLES
  hthread,             \* position and locals of each calling thread
  hdone                \* calls that have returned: starts appended, patches
                       \* applied, entries cut off by a rewrite

histVars == << hthread, hdone >>

\* State of the submitting host.
VARIABLES
  sender_history       \* ~/.homie/job_history.jsonl on the submitter's host

\* State of a container executor taken by itself.
VARIABLES
  cconfig,             \* ContainerExecutor.config
  started              \* the arguments of every containers.run so far

capVars == << cconfig, started >>

\* State of the long-lived loops of Discovery and Worker.
VARIABLES
  running_flag,        \* Discovery and Worker: "running" (_running is True),
                       \* "stopping" (stop() has cleared it), "stopped" (stop()
                       \* has closed the sockets as well)
  loop,                \* where each loop thread is: head, body or exited
  effects              \* heartbeats sent and connections accepted so far

stopVars == << running_flag, loop, effects >>

\* State of the direct-peer list and of the heartbeat broadcaster.
VARIABLES
  direct_peers,        \* Discovery._direct_peers
  peers_file,          \* the text of ~/.homie/peers (NoFile: it does not exist)
  datagrams,           \* what the broadcaster sent in its last interval
  unreachable,         \* the targets whose sendto raised in that interval
  intervals            \* heartbeat intervals gone by

directVars == << direct_peers, peers_file, datagrams, unreachable, intervals >>

\* State of one execute_streaming call followed from mkdtemp to its return.
VARIABLES
  xjob,                \* the job: its id and what Docker knows of its image
  xpc,                 \* where the call is
  xworkspace,          \* the workspace directory of the call
  xtracked,            \* the keys of ContainerExecutor._running_containers
  xresult              \* the JobResult returned (NoResult: none yet)

imageVars == << xjob, xpc, xworkspace, xtracked, xresult >>

\* State of the receive thread of Discovery and of the callbacks.
VARIABLES
  listener,            \* _handle_message: where the thread is, and is_new
  events               \* the calls of on_peer_joined and on_peer_left, in order

eventVars == << listener, events >>

\* the state added for the later sections
lateVars == << directVars, imageVars, eventVars >>

\* the state of the earlier ones outside the worker, the client and discovery
EarlyVars == << histVars, sender_history, capVars, stopVars >>

\* the variables no worker, client or discovery step touches
sideVars == << EarlyVars, lateVars >>

others == << call, ret, peers, peer_timeout, sending, stopped_at, next_pass,
             notified, dgram, sideVars >>

vars == << now, ticks, pc, req, sent, peerOpen, running_jobs, running_containers,
           cont, workspace, exec, result, history, status, cres, callbacks,
           auth, others >>

NoCall == [op |-> "none", job_id |-> "none",
           conn |-> [connect |-> "none", stream |-> <<>>, end |-> "eof"]]
NoRet == [kind |-> "none", result |-> NoResult, flag |-> FALSE, jobs |-> <<>>]

NoContainer == [state |-> "none", exit_code |-> 0, log |-> 0, read |-> 0]
NoExec == [container |-> FALSE, timed_out |-> FALSE, stdout_full |-> <<>>,
           interrupted |-> FALSE, raising |-> FALSE, start_time |-> 0,
           target |-> 0]
NoRequest == [kind |-> "none", job_id |-> "none", who |-> "none", at |-> 0,
              accepted |-> FALSE]
NoAuth == [conn |-> 0, kind |-> "none", job_id |-> "none", who |-> "none",
           hmac |-> <<>>, timestamp |-> 0, length |-> 0, malformed |-> FALSE,
           at |-> 0]

\* ============================================================ discovery
PeerNames == {"a", "b", "x"}          \* "a": this node; "b": a member; "x": not one
OwnName == "a"
Member == "b"
PeerTimeouts == {4, DefaultPeerTimeout, 20}
NoPeer == [last_seen |-> 0 - 1]
NoDgram ==
  [ json |-> FALSE, heartbeat |-> [name |-> "none", complete |-> FALSE],
    sig |-> <<>> ]

\* sign_heartbeat: HMAC of the canonical JSON of the heartbeat, idealised
sign_heartbeat(data, secret) == <<secret, data>>

verify_heartbeat(data, signature, secret) ==
  sign_heartbeat(data, secret) = signature

\* Peer.is_alive at the given clock
is_alive(peer, clock) == clock - peer.last_seen < AliveWindow

\* Discovery.get_peers: the names of the entries returned
get_peers == { n \in PeerNames : peers[n] # NoPeer /\ is_alive(peers[n], now) }

\* The datagrams that can reach the listening socket. Forms: a heartbeat as
\* _broadcast_loop sends it ("ok"), bytes that are no JSON, a heartbeat
\* without its "ip" field, a member's signed heartbeat whose name was
\* replaced afterwards ("renamed").
Forms == {"ok", "not json", "no ip", "renamed"}

Datagram(name, secret, form) ==
  LET heartbeat == [name |-> name, complete |-> form # "no ip"]
  IN [ json |-> form # "not json",
       heartbeat |-> heartbeat,
       sig |-> sign_heartbeat(
                 IF form = "renamed" THEN [heartbeat EXCEPT !.name = Member]
                 ELSE heartbeat, secret) ]

\* who can produce which datagram: the group secret is known to this node
\* and to the member while it is up; anybody can send anything else
CanSend(name, secret, form) ==
  \/ secret # GroupSecret
  \/ form = "not json"
  \/ name = OwnName /\ form = "ok"
  \/ name = Member /\ sending /\ form \in {"ok", "no ip"}
  \/ name # Member /\ sending /\ form = "renamed"

\* (mutant) the signature is not verified
Accepts_NoSignatureCheck(d) ==
  /\ d.json
  /\ d.heartbeat.name # OwnName
  /\ d.heartbeat.complete

\* _handle_message reaches the update of the peer map: the bytes parse, the
\* signature verifies, the name is not this node's, every field is there
Accepts(d) ==
  /\ d.json
  /\ verify_heartbeat(d.heartbeat, d.sig, GroupSecret)
  /\ d.heartbeat.name # OwnName
  /\ d.heartbeat.complete

discVars == << peers, peer_timeout, sending, stopped_at, next_pass, notified,
               dgram >>

\* Discovery.__init__ and start(): no peers, the cleanup thread asleep for
\* peer_timeout / 2
DiscStart(timeout) ==
  /\ peers = [n \in PeerNames |-> NoPeer]
  /\ peer_timeout = timeout
  /\ sending = TRUE
  /\ stopped_at = 0
  /\ next_pass = timeout \div 2
  /\ notified = [joined |-> 0, left |-> 0]
  /\ dgram = NoDgram

\* ============================================================== history
\* history.py: one JSON object per line of ~/.homie/job_history.jsonl. An
\* entry is modelled by the fields the module's logic reads or writes; the
\* fields it only copies (sender, filename, args, image, require_gpu) are
\* left out. None is Null in the number fields and "null" in the others.
Null == 0 - 1
Roles == {"mooch", "plug"}
HistPeers == {"a", "c"}
NoFilter == "None"
HistThreads == 1..MaxThreads

\* JobHistoryEntry(..., start_time=time.time()) with the defaults of the class
JobHistoryEntry(job_id, peer, role, clock) ==
  [ job_id |-> job_id, peer |-> peer, role |-> role, start_time |-> clock,
    end_time |-> Null, runtime_seconds |-> Null, exit_code |-> Null,
    success |-> "null", error |-> NoError, output_file_count |-> 0 ]

\* bool(x) of an optional number: None and 0 are false
Truthy(x) == x # Null /\ x # 0

SetMax(S) == CHOOSE x \in S : \A y \in S : y <= x

\* one step of list.sort(key=start_time, reverse=True) on a sorted list: the
\* sort is stable, so e goes behind every entry that is not older than it
InsertEntry(s, e) ==
  LET k == Cardinality({ i \in 1..Len(s) : s[i].start_time >= e.start_time })
  IN SubSeq(s, 1, k) \o <<e>> \o SubSeq(s, k + 1, Len(s))

RECURSIVE SortNewestFirst(_)
SortNewestFirst(s) ==
  IF s = <<>> THEN <<>>
  ELSE InsertEntry(SortNewestFirst(SubSeq(s, 1, Len(s) - 1)), s[Len(s)])

\* the filters of read_history, as Python evaluates them: `not entry.success`
\* is true of None and of False, `entry.success` only of True
Kept(entry, role, peer, success_only, failed_only, since) ==
  /\ ~(role # NoFilter /\ entry.role # role)
  /\ ~(peer # NoFilter /\ entry.peer # peer)
  /\ ~(success_only /\ entry.success # "true")
  /\ ~(failed_only /\ entry.success = "true")
  /\ ~(Truthy(since) /\ entry.start_time < since)

\* read_history(limit, role, peer, success_only, failed_only, since) on the
\* lines of the file
read_history(file, limit, role, peer, success_only, failed_only, since) ==
  LET keep(entry) == Kept(entry, role, peer, success_only, failed_only, since)
      entries == SortNewestFirst(SelectSeq(file, keep))
  IN IF Truthy(limit)
     THEN SubSeq(entries, 1, IF limit < Len(entries) THEN limit ELSE Len(entries))
     ELSE entries

\* read_history() with no argument
read_all(file) == read_history(file, Null, NoFilter, NoFilter, FALSE, FALSE, Null)

\* (mutant) the loop takes the last entry with this job_id, open or not
patch_entries_AnyRecord(entries, job_id, exit_code, runtime_seconds, error, output_file_count, clock) ==
  LET matching == { i \in 1..Len(entries) : entries[i].job_id = job_id }
  IN IF matching = {}
     THEN [entries |-> entries, updated |-> FALSE]
     ELSE [entries |->
             [entries EXCEPT ![SetMax(matching)] =
                [@ EXCEPT !.end_time = clock,
                          !.runtime_seconds = runtime_seconds,
                          !.exit_code = exit_code,
                          !.success = IF exit_code = 0 /\ error = NoError
                                      THEN "true" ELSE "false",
                          !.error = error,
                          !.output_file_count = output_file_count]],
           updated |-> TRUE]

\* (mutant) success follows the exit code alone
patch_entries_ExitCodeOnly(entries, job_id, exit_code, runtime_seconds, error, output_file_count, clock) ==
  LET matching == { i \in 1..Len(entries) :
                      entries[i].job_id = job_id /\ entries[i].end_time = Null }
  IN IF matching = {}
     THEN [entries |-> entries, updated |-> FALSE]
     ELSE [entries |->
             [entries EXCEPT ![SetMax(matching)] =
                [@ EXCEPT !.end_time = clock,
                          !.runtime_seconds = runtime_seconds,
                          !.exit_code = exit_code,
                          !.success = IF exit_code = 0
                                      THEN "true" ELSE "false",
                          !.error = error,
                          !.output_file_count = output_file_count]],
           updated |-> TRUE]

\* the loop of update_job_completion over reversed(entries): the first entry
\* from the end of the list with this job_id and no end_time gets the
\* completion fields
patch_entries(entries, job_id, exit_code, runtime_seconds, error, output_file_count, clock) ==
  LET matching == { i \in 1..Len(entries) :
                      entries[i].job_id = job_id /\ entries[i].end_time = Null }
  IN IF matching = {}
     THEN [entries |-> entries, updated |-> FALSE]
     ELSE [entries |->
             [entries EXCEPT ![SetMax(matching)] =
                [@ EXCEPT !.end_time = clock,
                          !.runtime_seconds = runtime_seconds,
                          !.exit_code = exit_code,
                          !.success = IF exit_code = 0 /\ error = NoError
                                      THEN "true" ELSE "false",
                          !.error = error,
                          !.output_file_count = output_file_count]],
           updated |-> TRUE]

\* _write_history(entries): the lines the file holds afterwards
write_history(entries) ==
  IF Len(entries) > MAX_HISTORY_ENTRIES
  THEN SubSeq(entries, Len(entries) - MAX_HISTORY_ENTRIES + 1, Len(entries))
  ELSE entries

\* update_job_completion(...) run without interruption
update_job_completion(file, job_id, exit_code, runtime_seconds, error, output_file_count, clock) ==
  LET patched == patch_entries(read_all(file), job_id, exit_code,
                               runtime_seconds, error, output_file_count, clock)
  IN IF patched.updated THEN write_history(patched.entries) ELSE file

\* get_history_stats(); a quotient is the pair << numerator, denominator >>
get_history_stats(file) ==
  LET entries == read_all(file)
      is_completed(e) == e.end_time # Null
      is_successful(e) == e.success = "true"
      is_failed(e) == e.success # "true"
      is_running(e) == e.end_time = Null
      completed == SelectSeq(entries, is_completed)
      successful == SelectSeq(completed, is_successful)
      failed == SelectSeq(completed, is_failed)
      running == SelectSeq(entries, is_running)
      RECURSIVE Sum(_)
      Sum(s) == IF s = <<>> THEN 0
                ELSE (IF Truthy(s[1].runtime_seconds) THEN s[1].runtime_seconds ELSE 0)
                     + Sum(Tail(s))
      total_runtime == Sum(completed)
  IN IF entries = <<>>
     THEN [ total_jobs |-> 0, completed_jobs |-> 0, successful_jobs |-> 0,
            failed_jobs |-> 0, running_jobs |-> 0, success_rate |-> <<0, 1>>,
            avg_runtime |-> <<0, 1>>, total_runtime |-> 0 ]
     ELSE [ total_jobs |-> Len(entries), completed_jobs |-> Len(completed),
            successful_jobs |-> Len(successful), failed_jobs |-> Len(failed),
            running_jobs |-> Len(running),
            success_rate |-> IF completed # <<>>
                             THEN <<Len(successful) * 100, Len(completed)>>
                             ELSE <<0, 1>>,
            avg_runtime |-> IF completed # <<>>
                            THEN <<total_runtime, Len(completed)>> ELSE <<0, 1>>,
            total_runtime |-> total_runtime ]

\* a thread that is in no call of the module
NoThread == [pc |-> "idle", job_id |-> "none", role |-> "none",
             read |-> <<>>, entries |-> <<>>]

\* no thread has called the module yet
HistStart ==
  /\ hthread = [t \in HistThreads |-> NoThread]
  /\ hdone = [appended |-> 0, patched |-> 0, truncated |-> 0]

\* ContainerConfig(): the defaults of the class
ContainerConfig ==
  [ cpu_limit |-> 2, memory_limit |-> "4g", timeout |-> ContainerTimeout,
    network_mode |-> "none", pids_limit |-> PidsLimit ]

\* ContainerExecutor.__init__: no container started yet
CapStart(config) ==
  /\ cconfig = config
  /\ started = <<>>

\* the loops of Discovery (_broadcast_loop, _listen_loop, _cleanup_loop) and
\* of Worker (_server_loop)
Loops == {"broadcast", "listen", "cleanup", "accept"}
Owner(l) == IF l = "accept" THEN "worker" ELSE "discovery"

\* Discovery.start() and Worker.start(): _running is set and every loop
\* thread is about to test it
StopStart ==
  /\ running_flag = [discovery |-> "running", worker |-> "running"]
  /\ loop = [l \in Loops |-> "head"]
  /\ effects = [heartbeats |-> 0, accepted |-> 0]

\* the submitter's history file is empty as well
\* ---------------------------------------------------------- direct peers
\* discovery.py: the list of IPs that get every heartbeat by unicast, and
\* the file ~/.homie/peers that holds it. A text is a sequence of characters,
\* an IP a text of digits.
LF == "\n"
SP == " "
NoFile == [exists |-> FALSE, text |-> <<>>]
TextFile(text) == [exists |-> TRUE, text |-> text]

\* (mutant) "".join(list): nothing between two IPs
RECURSIVE join_NoSeparator(_)
join_NoSeparator(list) ==
  IF list = <<>> THEN <<>>
  ELSE list[1] \o join_NoSeparator(Tail(list))

\* "\n".join(list)
RECURSIVE join(_)
join(list) ==
  IF list = <<>> THEN <<>>
  ELSE IF Len(list) = 1 THEN list[1]
  ELSE list[1] \o <<LF>> \o join(Tail(list))

\* text.split("\n")
RECURSIVE split(_)
split(text) ==
  LET breaks == { i \in 1..Len(text) : text[i] = LF }
  IN IF breaks = {} THEN <<text>>
     ELSE LET i == CHOOSE b \in breaks : \A c \in breaks : b <= c
          IN <<SubSeq(text, 1, i - 1)>> \o split(SubSeq(text, i + 1, Len(text)))

\* text.strip()
strip(text) ==
  LET inked == { i \in 1..Len(text) : text[i] \notin {SP, LF} }
  IN IF inked = {} THEN <<>>
     ELSE SubSeq(text, CHOOSE a \in inked : \A c \in inked : a <= c,
                       CHOOSE b \in inked : \A c \in inked : b >= c)

\* Discovery._load_direct_peers, from the list __init__ set (empty)
load_direct_peers(file) ==
  IF file.exists
  THEN LET parts == split(strip(file.text))
           kept == SelectSeq(parts, LAMBDA ip : strip(ip) # <<>>)
       IN [i \in 1..Len(kept) |-> strip(kept[i])]
  ELSE <<>>

\* peers_file.write_text("\n".join(self._direct_peers) + "\n")
write_direct_peers(list) == TextFile(join(list) \o <<LF>>)

\* list.remove(ip): the first occurrence goes
remove_first(list, ip) ==
  LET i == CHOOSE k \in 1..Len(list) :
             list[k] = ip /\ \A j \in 1..(k - 1) : list[j] # ip
  IN SubSeq(list, 1, i - 1) \o SubSeq(list, i + 1, Len(list))

\* the list contains the IP
Listed(list, ip) == \E k \in 1..Len(list) : list[k] = ip

\* Discovery.__init__ on a host with the given peers file
DirectStart(file) ==
  /\ peers_file = file
  /\ direct_peers = load_direct_peers(file)

\* the broadcaster has sent nothing yet
BroadcastStart ==
  /\ datagrams = <<>>
  /\ unreachable = {}
  /\ intervals = 0

\* the components outside the worker, the client and the peer map
EarlyStart ==
  /\ HistStart
  /\ sender_history = <<>>
  /\ CapStart(ContainerConfig)
  /\ StopStart

\* no execute_streaming call is followed
ImageStart ==
  /\ xjob = [job_id |-> "none", image |-> "none"]
  /\ xpc = "idle"
  /\ xworkspace = "none"
  /\ xtracked = {}
  /\ xresult = NoResult

\* the receive thread waits in recvfrom; no callback was called
EventStart ==
  /\ listener = [pc |-> "recvfrom", is_new |-> FALSE]
  /\ events = <<>>

LateStart ==
  /\ DirectStart(NoFile)
  /\ BroadcastStart
  /\ ImageStart
  /\ EventStart

SideInit == EarlyStart /\ LateStart

\* nothing has been called yet
CallInit ==
  /\ call = NoCall
  /\ ret = NoRet

\* Worker.__init__ and start(): no connection, no job, no container
WorkerStart ==
  /\ now = 0
  /\ ticks = 0
  /\ pc = [c \in Conns |-> "idle"]
  /\ req = [c \in Conns |-> NoRequest]
  /\ sent = [c \in Conns |-> <<>>]
  /\ peerOpen = [c \in Conns |-> TRUE]
  /\ running_jobs = [j \in JobIds |-> NoJob]
  /\ running_containers = [j \in JobIds |-> 0]
  /\ cont = [c \in Conns |-> NoContainer]
  /\ workspace = [c \in Conns |-> "none"]
  /\ exec = [c \in Conns |-> NoExec]
  /\ result = [c \in Conns |-> NoResult]
  /\ status = "idle"
  /\ cres = [c \in Conns |-> NoResult]
  /\ callbacks = [c \in Conns |-> <<>>]
  /\ auth = NoAuth

\* ... and no line in the history file
WorkerInit == WorkerStart /\ history = <<>>

Init == WorkerInit /\ CallInit /\ DiscStart(DefaultPeerTimeout) /\ SideInit

\* --------------------------------------------------------------- helpers
\* conn.sendall(bs): the bytes reach the stream unless the peer is gone
\* (then sendall raises, and every caller here swallows that)
SendAll(c, bs) == IF peerOpen[c] THEN sent[c] \o bs ELSE sent[c]

Frame(kind, payload) == <<CharByte(kind)>> \o ToBytes4(Len(payload)) \o payload

\* Worker._send_error: length and payload, no kind byte
ErrorFrame(message) ==
  LET data == serialize_result(JobResult("error", 0 - 1, <<>>, message))
  IN ToBytes4(Len(data)) \o data

\* the three sendall of _handle_job_submission after the job returned
ResultFrame(res) == Frame("R", serialize_result(res))

\* send_output_chunk
OutputFrame(chunk) ==
  Frame(IF chunk.stream = "stdout" THEN "O" ELSE "E", EncodeText(chunk.data))

\* connections are accepted in order
\* (mutant) the accept loop serves a connection itself and accepts the next
\* one when it is done
NextToAccept_Serial(c) ==
  /\ pc[c] = "idle"
  /\ \A d \in Conns : d < c => pc[d] = "closed"

NextToAccept(c) ==
  /\ pc[c] = "idle"
  /\ \A d \in Conns : d < c => pc[d] # "idle"

\* the request a peer sends on connection c, with one thing wrong or none
Request(c, kind, job_id, who, fault, clock) ==
  LET timestamp == clock + Offset(fault)
      signed == IF fault = "other job"
                THEN CHOOSE j \in JobIds : j # job_id ELSE job_id
      secret == IF fault = "wrong secret"
                THEN CHOOSE s \in Secrets : s # GroupSecret ELSE GroupSecret
  IN [ conn |-> c, kind |-> kind, job_id |-> job_id, who |-> who,
       hmac |-> compute_auth_hmac(signed, timestamp, secret),
       timestamp |-> timestamp,
       length |-> IF fault = "oversize" THEN MaxPayload + 1 ELSE 64,
       malformed |-> (fault = "malformed"), at |-> clock ]

\* job ids are random: which of the unused ones a new job gets is immaterial
UsedJobIds == { req[d].job_id : d \in { e \in Conns : req[e].kind = "J" } }
FreshJobIds ==
  IF "j1" \notin UsedJobIds THEN {"j1"} ELSE JobIds \ UsedJobIds

Tick ==
  /\ UNCHANGED others
  /\ ticks < MaxTicks
  /\ now' = now + TickStep
  /\ ticks' = ticks + 1
  /\ auth' = NoAuth
  /\ UNCHANGED << pc, req, sent, peerOpen, running_jobs, running_containers,
                  cont, workspace, exec, result, history, status, cres, callbacks >>

\* ---------------------------------------------- worker: job submission
\* _handle_connection reads 'J'; _handle_job_submission up to deserialize_job
JobSubmission(c) ==
  /\ UNCHANGED others
  /\ NextToAccept(c)
  /\ Cardinality({ d \in Conns : req[d].kind = "J" }) < MaxJobs
  /\ \E job_id \in UsedJobIds \cup FreshJobIds, sender \in Names,
        fault \in Faults :
       LET r == Request(c, "J", job_id, sender, fault, now)
           err == IF r.length > MaxPayload THEN "Job payload too large"
                  ELSE deserialize_job(r, now)
       IN /\ auth' = r
          /\ req' = [req EXCEPT ![c] = [kind |-> "J", job_id |-> job_id,
                                        who |-> sender, at |-> now,
                                        accepted |-> (err = "ok")]]
          /\ IF err = "ok"
             THEN /\ pc' = [pc EXCEPT ![c] = "register"]
                  /\ sent' = sent
             ELSE /\ pc' = [pc EXCEPT ![c] = "closed"]
                  /\ sent' = [sent EXCEPT ![c] = SendAll(c, ErrorFrame(err))]
  /\ UNCHANGED << now, ticks, peerOpen, running_jobs, running_containers, cont,
                  workspace, exec, result, history, status, cres, callbacks >>

\* _handle_connection reads a kind byte that is none of 'J', 'K', 'L' and
\* answers "Unknown message type", or reads nothing because the peer has
\* closed the connection, and returns
OtherKind(c) ==
  /\ UNCHANGED others
  /\ NextToAccept(c)
  /\ \E msg_type \in {"X", "eof"} :
       /\ req' = [req EXCEPT ![c] = [NoRequest EXCEPT !.kind = msg_type]]
       /\ sent' = [sent EXCEPT ![c] =
                     IF msg_type = "eof" THEN sent[c]
                     ELSE SendAll(c, ErrorFrame("Unknown message type"))]
       /\ peerOpen' = [peerOpen EXCEPT ![c] = (msg_type # "eof")]
  /\ pc' = [pc EXCEPT ![c] = "closed"]
  /\ auth' = NoAuth
  /\ UNCHANGED << now, ticks, running_jobs, running_containers, cont, workspace,
                  exec, result, history, status, cres, callbacks >>

\* _execute_job_streaming: self._running_jobs[job.job_id] = running_job
RegisterJob(c) ==
  /\ UNCHANGED others
  /\ pc[c] = "register"
  /\ running_jobs' = [running_jobs EXCEPT ![req[c].job_id] =
                        [sender |-> req[c].who, conn |-> c]]
  /\ pc' = [pc EXCEPT ![c] = "history"]
  /\ auth' = NoAuth
  /\ UNCHANGED << now, ticks, req, sent, peerOpen, running_containers, cont,
                  workspace, exec, result, history, status, cres, callbacks >>

\* append_job_start(...): one more line in the history file, or the call
\* raises (it runs before the try): _handle_connection sends the error, closes
AppendJobStart(c) ==
  /\ UNCHANGED others
  /\ pc[c] = "history"
  /\ \E ok \in BOOLEAN :
       IF ok
       THEN /\ history' = Append(history, JobHistoryEntry(req[c].job_id, req[c].who,
                                                         "plug", now))
            /\ pc' = [pc EXCEPT ![c] = "notify"]
            /\ sent' = sent
       ELSE /\ history' = history
            /\ pc' = [pc EXCEPT ![c] = "closed"]
            /\ sent' = [sent EXCEPT ![c] = SendAll(c, ErrorFrame("Worker error"))]
  /\ auth' = NoAuth
  /\ UNCHANGED << now, ticks, req, peerOpen, running_jobs, running_containers,
                  cont, workspace, exec, result, status, cres, callbacks >>

\* on_status_changed("busy"); on_job_started(job)
NotifyBusy(c) ==
  /\ UNCHANGED others
  /\ pc[c] = "notify"
  /\ status' = "busy"
  /\ pc' = [pc EXCEPT ![c] = "exec_start"]
  /\ auth' = NoAuth
  /\ UNCHANGED << now, ticks, req, sent, peerOpen, running_jobs,
                  running_containers, cont, workspace, exec, result, history,
                  cres, callbacks >>

\* ------------------------------------------------- executor: one execution
\* what tempfile.mkdtemp, _prepare_workspace, _ensure_image and
\* client.containers.run (create, then start) can do
StartOutcomes ==
  { "mkdtemp failed", "workspace write failed", "image not found",
    "create failed", "start failed", "started" }

\* execute_streaming up to containers.run: nothing of it is visible to the
\* other threads before the container is tracked
ExecStart(c) ==
  /\ UNCHANGED others
  /\ pc[c] = "exec_start"
  /\ \E o \in StartOutcomes :
       /\ workspace' = [workspace EXCEPT ![c] =
                          IF o = "mkdtemp failed" THEN "none" ELSE "present"]
       /\ cont' = [cont EXCEPT ![c].state =
                     CASE o = "started" -> "running"
                       [] o = "start failed" -> "created"
                       [] OTHER -> "none"]
       /\ exec' = [exec EXCEPT ![c].start_time = now,
                               ![c].container = (o = "started"),
                               ![c].raising = (o = "mkdtemp failed")]
       /\ result' = [result EXCEPT ![c] =
                       CASE o = "image not found" ->
                              JobResult(req[c].job_id, 0 - 1, <<>>, "Docker image not found")
                         [] o \in {"workspace write failed", "create failed", "start failed"} ->
                              JobResult(req[c].job_id, 0 - 1, <<>>, "start failed")
                         [] OTHER -> NoResult]
       /\ pc' = [pc EXCEPT ![c] =
                   CASE o = "started" -> "track"
                     [] o = "mkdtemp failed" -> "pop_job"
                     [] OTHER -> "exec_finally"]
  /\ auth' = NoAuth
  /\ UNCHANGED << now, ticks, req, sent, peerOpen, running_jobs,
                  running_containers, history, status, cres, callbacks >>

\* self._running_containers[job.job_id] = container
TrackContainer(c) ==
  /\ UNCHANGED others
  /\ pc[c] = "track"
  /\ running_containers' = [running_containers EXCEPT ![req[c].job_id] = c]
  /\ pc' = [pc EXCEPT ![c] = "stream"]
  /\ auth' = NoAuth
  /\ UNCHANGED << now, ticks, req, sent, peerOpen, running_jobs, cont,
                  workspace, exec, result, history, status, cres, callbacks >>

\* the break of the streaming loop: container.reload(); status != "running"
LeavesLoop(container) == container.state # "running"

\* one iteration of `for chunk in log_stream`: the next chunk of the log,
\* on_output (send_output_chunk), container.reload() and the status test
StreamChunk(c) ==
  /\ UNCHANGED others
  /\ pc[c] = "stream"
  /\ cont[c].read < cont[c].log
  /\ LET text == <<ChunkData[cont[c].read + 1]>>
     IN /\ exec' = [exec EXCEPT ![c].stdout_full = @ \o text]
        /\ sent' = [sent EXCEPT ![c] =
                      SendAll(c, OutputFrame([stream |-> "stdout", data |-> text]))]
  /\ cont' = [cont EXCEPT ![c].read = @ + 1]
  /\ pc' = [pc EXCEPT ![c] = IF LeavesLoop(cont[c]) THEN "exit_code" ELSE "stream"]
  /\ auth' = NoAuth
  /\ UNCHANGED << now, ticks, req, peerOpen, running_jobs, running_containers,
                  workspace, result, history, status, cres, callbacks >>

\* the log stream ends: the container stopped and its log is read to the end
StreamEnd(c) ==
  /\ UNCHANGED others
  /\ pc[c] = "stream"
  /\ cont[c].read = cont[c].log
  /\ cont[c].state # "running"
  /\ pc' = [pc EXCEPT ![c] = "exit_code"]
  /\ auth' = NoAuth
  /\ UNCHANGED << now, ticks, req, sent, peerOpen, running_jobs,
                  running_containers, cont, workspace, exec, result, history,
                  status, cres, callbacks >>

\* container.kill(): Docker stops a running container, refuses any other
Killable(container) == container.state = "running"
Killed(container) == [container EXCEPT !.state = "exited", !.exit_code = 137]

\* an exception of the Docker API while streaming: "timed out" in its
\* message sets timed_out and kills the container, any other is dropped
StreamError(c) ==
  /\ UNCHANGED others
  /\ pc[c] = "stream"
  /\ \E timeout \in BOOLEAN :
       /\ exec' = [exec EXCEPT ![c].timed_out = timeout,
                               ![c].interrupted = TRUE]
       /\ cont' = [cont EXCEPT ![c] =
                     IF timeout /\ Killable(@) THEN Killed(@) ELSE @]
  /\ pc' = [pc EXCEPT ![c] = "exit_code"]
  /\ auth' = NoAuth
  /\ UNCHANGED << now, ticks, req, sent, peerOpen, running_jobs,
                  running_containers, workspace, result, history, status, cres,
                  callbacks >>

\* the JobResult of a streamed execution
StreamResult(job_id, exit_code, ex) ==
  JobResult(job_id, exit_code, ex.stdout_full,
            IF ex.timed_out THEN "Execution timed out" ELSE NoError)

\* container.reload(); State.ExitCode (-1 when the reload raises);
\* _collect_outputs; return JobResult(...)
ExitCode(c) ==
  /\ UNCHANGED others
  /\ pc[c] = "exit_code"
  /\ \E reloaded \in BOOLEAN :
       result' = [result EXCEPT ![c] =
                    StreamResult(req[c].job_id,
                                 IF reloaded THEN cont[c].exit_code ELSE 0 - 1,
                                 exec[c])]
  /\ pc' = [pc EXCEPT ![c] = "exec_finally"]
  /\ auth' = NoAuth
  /\ UNCHANGED << now, ticks, req, sent, peerOpen, running_jobs,
                  running_containers, cont, workspace, exec, history, status,
                  cres, callbacks >>

\* the container the finally block removes: the local `container`, which is
\* set only when containers.run returned
Removed(container, ex) ==
  IF ex.container THEN [NoContainer EXCEPT !.state = "removed"] ELSE container

\* finally: pop from _running_containers, container.remove(force=True),
\* shutil.rmtree(workspace)
ExecFinally(c) ==
  /\ UNCHANGED others
  /\ pc[c] = "exec_finally"
  /\ running_containers' = [running_containers EXCEPT ![req[c].job_id] = 0]
  /\ cont' = [cont EXCEPT ![c] = Removed(@, exec[c])]
  /\ workspace' = [workspace EXCEPT ![c] = "deleted"]
  /\ pc' = [pc EXCEPT ![c] = "completion"]
  /\ auth' = NoAuth
  /\ UNCHANGED << now, ticks, req, sent, peerOpen, running_jobs, exec, result,
                  history, status, cres, callbacks >>

\* ------------------------------------------------------------ containers
\* the job's program writes the next chunk of its output
ContainerWrite(c) ==
  /\ UNCHANGED others
  /\ cont[c].state = "running"
  /\ cont[c].log < MaxChunks
  /\ cont' = [cont EXCEPT ![c].log = @ + 1]
  /\ auth' = NoAuth
  /\ UNCHANGED << now, ticks, pc, req, sent, peerOpen, running_jobs,
                  running_containers, workspace, exec, result, history, status,
                  cres, callbacks >>

\* the job's program ends
ContainerExit(c) ==
  /\ UNCHANGED others
  /\ cont[c].state = "running"
  /\ \E code \in {0, 1} :
       cont' = [cont EXCEPT ![c].state = "exited", ![c].exit_code = code]
  /\ auth' = NoAuth
  /\ UNCHANGED << now, ticks, pc, req, sent, peerOpen, running_jobs,
                  running_containers, workspace, exec, result, history, status,
                  cres, callbacks >>

\* ------------------------------------------- worker: after the execution
\* update_job_completion(...) inside the try: it patches the history, or it
\* raises and the exception leaves _execute_job_streaming through its finally
Completion(c) ==
  /\ UNCHANGED others
  /\ pc[c] = "completion"
  /\ \E ok \in BOOLEAN :
       IF ok
       THEN /\ history' = update_job_completion(history, req[c].job_id,
                                                 result[c].exit_code,
                                                 result[c].runtime_seconds,
                                                 result[c].error,
                                                 Len(result[c].output_files), now)
            /\ exec' = exec
       ELSE /\ history' = history
            /\ exec' = [exec EXCEPT ![c].raising = TRUE]
  /\ pc' = [pc EXCEPT ![c] = "pop_job"]
  /\ auth' = NoAuth
  /\ UNCHANGED << now, ticks, req, sent, peerOpen, running_jobs,
                  running_containers, cont, workspace, result, status, cres,
                  callbacks >>

\* finally: self._running_jobs.pop(job.job_id, None)
PopJob(c) ==
  /\ UNCHANGED others
  /\ pc[c] = "pop_job"
  /\ running_jobs' = [running_jobs EXCEPT ![req[c].job_id] = NoJob]
  /\ pc' = [pc EXCEPT ![c] = "notify_idle"]
  /\ auth' = NoAuth
  /\ UNCHANGED << now, ticks, req, sent, peerOpen, running_containers, cont,
                  workspace, exec, result, history, status, cres, callbacks >>

\* finally: on_job_completed; on_status_changed("idle") when the table is
\* empty.  An exception on its way out then reaches _handle_connection,
\* which sends the error and closes.
NotifyIdle(c) ==
  /\ UNCHANGED others
  /\ pc[c] = "notify_idle"
  /\ status' = IF \A j \in JobIds : running_jobs[j] = NoJob THEN "idle" ELSE status
  /\ IF exec[c].raising
     THEN /\ sent' = [sent EXCEPT ![c] = SendAll(c, ErrorFrame("Worker error"))]
          /\ pc' = [pc EXCEPT ![c] = "closed"]
          /\ exec' = [exec EXCEPT ![c] = NoExec]
          /\ result' = [result EXCEPT ![c] = NoResult]
     ELSE /\ sent' = sent
          /\ pc' = [pc EXCEPT ![c] = "send_result"]
          /\ UNCHANGED << exec, result >>
  /\ auth' = NoAuth
  /\ UNCHANGED << now, ticks, req, peerOpen, running_jobs, running_containers,
                  cont, workspace, history, cres, callbacks >>

\* conn.sendall(b'R'), the length, the serialized result; conn.close().
\* The handler thread ends, its locals with it.
SendResult(c) ==
  /\ UNCHANGED others
  /\ pc[c] = "send_result"
  /\ sent' = [sent EXCEPT ![c] = SendAll(c, ResultFrame(result[c]))]
  /\ pc' = [pc EXCEPT ![c] = "closed"]
  /\ exec' = [exec EXCEPT ![c] = NoExec]
  /\ result' = [result EXCEPT ![c] = NoResult]
  /\ auth' = NoAuth
  /\ UNCHANGED << now, ticks, req, peerOpen, running_jobs, running_containers,
                  cont, workspace, history, status, cres, callbacks >>

\* --------------------------------------------------- worker: kill request
\* (mutant) any member of the group may kill any job
KillAuthorized_AnyRequester(requester, running_job) == TRUE

\* requester != original_sender is answered '0'
KillAuthorized(requester, running_job) == requester = running_job.sender

\* the checks of _handle_kill_request before the executor is asked
KillVerdict(r, clock, running_job) ==
  IF r.malformed THEN "malformed"
  ELSE IF ~verify_auth_hmac(r.job_id, r.timestamp, r.hmac, GroupSecret)
    THEN "auth failed"
  ELSE IF Abs(clock - r.timestamp) > AuthWindow THEN "too old"
  ELSE IF running_job = NoJob THEN "job not found"
  ELSE IF ~KillAuthorized(r.who, running_job) THEN "not authorized"
  ELSE "ok"

\* _handle_connection reads 'K'; _handle_kill_request up to the lookup in
\* _running_jobs and the test of the requester
KillRequest(c) ==
  /\ UNCHANGED others
  /\ NextToAccept(c)
  /\ \E job_id \in JobIds, requester \in Names, fault \in Faults :
       LET r == Request(c, "K", job_id, requester, fault, now)
           v == KillVerdict(r, now, running_jobs[job_id])
       IN /\ auth' = r
          /\ req' = [req EXCEPT ![c] = [kind |-> "K", job_id |-> job_id,
                                        who |-> requester, at |-> 0,
                                        accepted |-> (v = "ok")]]
          /\ IF v = "ok"
             THEN /\ pc' = [pc EXCEPT ![c] = "kill_lookup"]
                  /\ sent' = sent
             ELSE /\ pc' = [pc EXCEPT ![c] = "closed"]
                  /\ sent' = [sent EXCEPT ![c] = SendAll(c, <<CharByte("0")>>)]
  /\ UNCHANGED << now, ticks, peerOpen, running_jobs, running_containers, cont,
                  workspace, exec, result, history, status, cres, callbacks >>

\* ContainerExecutor.kill_job: container = self._running_containers.get(job_id)
KillLookup(c) ==
  /\ UNCHANGED others
  /\ pc[c] = "kill_lookup"
  /\ LET target == running_containers[req[c].job_id]
     IN IF target = 0
        THEN /\ sent' = [sent EXCEPT ![c] = SendAll(c, <<CharByte("0")>>)]
             /\ pc' = [pc EXCEPT ![c] = "closed"]
             /\ exec' = exec
        ELSE /\ sent' = sent
             /\ pc' = [pc EXCEPT ![c] = "kill_container"]
             /\ exec' = [exec EXCEPT ![c].target = target]
  /\ auth' = NoAuth
  /\ UNCHANGED << now, ticks, req, peerOpen, running_jobs, running_containers,
                  cont, workspace, result, history, status, cres, callbacks >>

\* ContainerExecutor.kill_job: container.kill(); True, or False when it raises
KillContainer(c) ==
  /\ UNCHANGED others
  /\ pc[c] = "kill_container"
  /\ LET t == exec[c].target
     IN IF Killable(cont[t])
        THEN /\ cont' = [cont EXCEPT ![t] = Killed(@)]
             /\ sent' = [sent EXCEPT ![c] = SendAll(c, <<CharByte("1")>>)]
        ELSE /\ cont' = cont
             /\ sent' = [sent EXCEPT ![c] = SendAll(c, <<CharByte("0")>>)]
  /\ pc' = [pc EXCEPT ![c] = "closed"]
  /\ exec' = [exec EXCEPT ![c] = NoExec]
  /\ auth' = NoAuth
  /\ UNCHANGED << now, ticks, req, peerOpen, running_jobs, running_containers,
                  workspace, result, history, status, cres, callbacks >>

\* --------------------------------------------------- worker: list request
\* a job id of the table names a running job
IsRunning(j) == j \in JobIds /\ running_jobs[j] # NoJob

\* json.dumps({"jobs": jobs_info}): the number of jobs and their ids
serialize_jobs(ids) ==
  <<Len(ids)>> \o [i \in 1..Len(ids) |-> IndexOf(JobIdTexts, ids[i])]

\* the checks of _handle_list_request
ListVerdict(r) ==
  IF r.malformed THEN "malformed"
  ELSE IF ~verify_auth_hmac("list", r.timestamp, r.hmac, GroupSecret)
    THEN "auth failed"
  ELSE "ok"

\* _handle_connection reads 'L'; _handle_list_request
ListRequest(c) ==
  /\ UNCHANGED others
  /\ NextToAccept(c)
  /\ \E fault \in Faults :
       LET r == Request(c, "L", "list", "none", fault, now)
           v == ListVerdict(r)
           response == serialize_jobs(SelectSeq(JobIdTexts, IsRunning))
       IN /\ auth' = r
          /\ req' = [req EXCEPT ![c] = [kind |-> "L", job_id |-> "list",
                                        who |-> "none", at |-> 0,
                                        accepted |-> (v = "ok")]]
          /\ sent' = [sent EXCEPT ![c] =
                        IF v = "ok"
                        THEN SendAll(c, <<CharByte("1")>>
                                        \o ToBytes4(Len(response)) \o response)
                        ELSE SendAll(c, <<CharByte("0")>>)]
  /\ pc' = [pc EXCEPT ![c] = "closed"]
  /\ UNCHANGED << now, ticks, peerOpen, running_jobs, running_containers, cont,
                  workspace, exec, result, history, status, cres, callbacks >>

\* ------------------------------------------------------ submission client
\* Client.run_job after the job is sent: _recv_exactly(sock, 4), the length,
\* _recv_exactly(sock, length), deserialize_result; None is the peer's close
run_job(job_id, stream, closed) ==
  IF Len(stream) < 4
  THEN JobResult(job_id, 0 - 1, <<>>, "Connection closed by peer")
  ELSE LET length == FromBytes4(SubSeq(stream, 1, 4))
       IN IF Len(stream) < 4 + length
          THEN JobResult(job_id, 0 - 1, <<>>, "Failed to receive result from peer")
          ELSE LET res == deserialize_result(SubSeq(stream, 5, 4 + length))
               IN IF res.job_id = "none"
                  THEN JobResult(job_id, 0 - 1, <<>>, "parse error")
                  ELSE res

\* run_job can return: the bytes it waits for are there, or the worker closed
CanReturn(stream, closed) ==
  \/ closed
  \/ /\ Len(stream) >= 4
     /\ Len(stream) >= 4 + FromBytes4(SubSeq(stream, 1, 4))

ClientReturn(c) ==
  /\ UNCHANGED others
  /\ req[c].kind = "J"
  /\ cres[c] = NoResult
  /\ CanReturn(sent[c], pc[c] = "closed")
  /\ cres' = [cres EXCEPT ![c] = run_job(req[c].job_id, sent[c], pc[c] = "closed")]
  /\ peerOpen' = [peerOpen EXCEPT ![c] = FALSE]
  /\ auth' = NoAuth
  /\ UNCHANGED << now, ticks, pc, req, sent, running_jobs, running_containers,
                  cont, workspace, exec, result, history, status, callbacks >>

\* except socket.timeout: nothing arrived within the deadline
ClientTimesOut(c) ==
  /\ UNCHANGED others
  /\ req[c].kind = "J"
  /\ cres[c] = NoResult
  /\ ~CanReturn(sent[c], pc[c] = "closed")
  /\ now - req[c].at >= ClientTimeout
  /\ cres' = [cres EXCEPT ![c] =
                JobResult(req[c].job_id, 0 - 1, <<>>, "Connection timed out")]
  /\ peerOpen' = [peerOpen EXCEPT ![c] = FALSE]
  /\ auth' = NoAuth
  /\ UNCHANGED << now, ticks, pc, req, sent, running_jobs, running_containers,
                  cont, workspace, exec, result, history, status, callbacks >>

\* ---------------------------------------------------------- specification
Next ==
  \/ Tick
  \/ \E c \in Conns :
       \/ JobSubmission(c)
       \/ RegisterJob(c)
       \/ AppendJobStart(c)
       \/ NotifyBusy(c)
       \/ ExecStart(c)
       \/ TrackContainer(c)
       \/ StreamChunk(c)
       \/ StreamEnd(c)
       \/ StreamError(c)
       \/ ExitCode(c)
       \/ ExecFinally(c)
       \/ Completion(c)
       \/ PopJob(c)
       \/ NotifyIdle(c)
       \/ SendResult(c)
       \/ KillRequest(c)
       \/ KillLookup(c)
       \/ KillContainer(c)
       \/ ListRequest(c)
       \/ OtherKind(c)
       \/ ContainerWrite(c)
       \/ ContainerExit(c)
       \/ ClientReturn(c)
       \/ ClientTimesOut(c)

Spec == Init /\ [][Next]_vars

\* ================================================================ claims
\* ------------------------------------------------- the protocol, as specified
\* the frames of a response stream: kind byte, 4-byte length, payload
BadFrame == [kind |-> 0, payload |-> <<>>]

RECURSIVE Frames(_)
Frames(bs) ==
  IF bs = <<>> THEN <<>>
  ELSE IF Len(bs) < 5 THEN <<BadFrame>>
  ELSE LET n == FromBytes4(SubSeq(bs, 2, 5))
       IN IF Len(bs) < 5 + n THEN <<BadFrame>>
          ELSE << [kind |-> bs[1], payload |-> SubSeq(bs, 6, 5 + n)] >>
               \o Frames(SubSeq(bs, 6 + n, Len(bs)))

\* zero or more 'O'/'E' frames, then exactly one 'R' frame
FramesThenResult(bs) ==
  LET f == Frames(bs)
  IN /\ Len(f) >= 1
     /\ f[Len(f)].kind = 82
     /\ \A i \in 1..(Len(f) - 1) : f[i].kind \in {79, 69}

RECURSIVE OutputOf(_)
\* the payloads of the output frames of a frame sequence, concatenated
OutputOf(f) ==
  IF f = <<>> THEN <<>>
  ELSE (IF Head(f).kind \in {79, 69} THEN Head(f).payload ELSE <<>>)
       \o OutputOf(Tail(f))

\* the first n chunks the program wrote, as bytes
RECURSIVE Written(_)
Written(n) ==
  IF n = 0 THEN <<>> ELSE Written(n - 1) \o EncodeText(<<ChunkData[n]>>)

ValidSignature(a) == a.hmac = <<GroupSecret, a.job_id, a.timestamp>>
Fresh(a) == a.at - a.timestamp <= 300 /\ a.timestamp - a.at <= 300
AuthErrors ==
  { "Job authentication failed - invalid HMAC",
    "Job authentication failed - timestamp too old" }

\* C1: a kill request whose requester is not the sender of the running job
\* of that job_id is answered '0' and its handler ends there: no container
\* changes state and the running-jobs table is left as it is.
C1_KillNeedsSender ==
  [][ ( /\ auth'.kind = "K"
        /\ running_jobs[auth'.job_id] # NoJob
        /\ running_jobs[auth'.job_id].sender # auth'.who )
      => ( /\ sent'[auth'.conn] = <<48>>
           /\ pc'[auth'.conn] = "closed"
           /\ cont' = cont
           /\ running_jobs' = running_jobs
           /\ running_containers' = running_containers ) ]_vars

\* a validly signed, fresh kill request from somebody else was answered '0'
\* while the job's container runs
C1_Witness ==
  /\ auth.kind = "K"
  /\ ValidSignature(auth) /\ Fresh(auth) /\ ~auth.malformed
  /\ running_jobs[auth.job_id] # NoJob
  /\ running_jobs[auth.job_id].sender # auth.who
  /\ cont[running_jobs[auth.job_id].conn].state = "running"
  /\ running_containers[auth.job_id] = running_jobs[auth.job_id].conn
  /\ sent[auth.conn] = <<48>>

\* C2 (as claimed): a kill request that is validly signed, fresh, names a
\* job of the running-jobs table and comes from that job's sender kills the
\* job and is answered '1', whenever it arrives between the job's dispatch
\* and its completion.
C2_AuthorizedKillSucceeds ==
  [][ /\ ( /\ auth'.kind = "K"
           /\ ValidSignature(auth') /\ Fresh(auth') /\ ~auth'.malformed
           /\ running_jobs[auth'.job_id] # NoJob
           /\ running_jobs[auth'.job_id].sender = auth'.who )
         => pc'[auth'.conn] = "kill_lookup"
      /\ \A k \in Conns :
           (pc[k] \in {"kill_lookup", "kill_container"} /\ pc'[k] = "closed")
           => sent'[k] = <<49>> ]_vars

\* the sender's kill request arrives while the job is in the running-jobs
\* table and its container is not yet tracked by the executor
C2_Witness ==
  \E k \in Conns :
    /\ pc[k] = "kill_lookup"
    /\ running_jobs[req[k].job_id] # NoJob
    /\ running_jobs[req[k].job_id].sender = req[k].who
    /\ running_containers[req[k].job_id] = 0
    /\ pc[running_jobs[req[k].job_id].conn] \in {"history", "notify", "exec_start", "track"}

\* C3 (as claimed): the bytes written for an accepted job submission are
\* zero or more complete 'O'/'E' frames followed by exactly one 'R' frame,
\* on every path of the job's execution.
C3_ResultFrameLast ==
  \A c \in Conns :
    (req[c].kind = "J" /\ req[c].accepted /\ pc[c] = "closed" /\ peerOpen[c])
    => FramesThenResult(sent[c])

\* C4 (as claimed): run_job delivers every 'O'/'E' payload to the caller's
\* callbacks, in order, and returns the JobResult of the 'R' frame the
\* worker wrote.
C4_ClientReadsFrames ==
  \A c \in Conns :
    (req[c].kind = "J" /\ cres[c] # NoResult /\ FramesThenResult(sent[c]))
    => LET f == Frames(sent[c])
       IN /\ cres[c] = deserialize_result(f[Len(f)].payload)
          /\ callbacks[c] = SubSeq(f, 1, Len(f) - 1)

\* a job submission whose signature does not verify or whose timestamp is
\* more than 300 s off the worker's clock
BadAuth(a) ==
  /\ a.kind = "J" /\ ~a.malformed /\ a.length <= MaxPayload
  /\ ~(ValidSignature(a) /\ Fresh(a))

\* one length-prefixed JobResult with exit_code -1 and an authentication error
IsAuthErrorFrame(bs) ==
  /\ Len(bs) > 4
  /\ Len(bs) = 4 + FromBytes4(SubSeq(bs, 1, 4))
  /\ LET res == deserialize_result(SubSeq(bs, 5, Len(bs)))
     IN /\ res.exit_code = 0 - 1
        /\ res.error \in AuthErrors

C6_AcceptIffSignedAndFresh ==
  (auth.kind = "J" /\ ~auth.malformed /\ auth.length <= MaxPayload)
  => /\ req[auth.conn].accepted <=> (ValidSignature(auth) /\ Fresh(auth))
     /\ ~req[auth.conn].accepted => IsAuthErrorFrame(sent[auth.conn])

\* a job whose timestamp is exactly 300 s behind the clock was accepted
C6_Witness ==
  /\ auth.kind = "J"
  /\ auth.at - auth.timestamp = 300
  /\ req[auth.conn].accepted
  /\ pc[auth.conn] = "register"

\* execute_streaming has returned to _execute_job_streaming
Returned(c) == pc[c] = "completion"

\* C7 (as claimed): a streamed job that is still running when the per-job
\* timeout has elapsed is killed: no container runs past the timeout while
\* its job is streamed, and a timed-out job's result has exit_code -1 and
\* error "Execution timed out".
C7_TimeoutKills ==
  \A c \in Conns :
    /\ (pc[c] = "stream" /\ cont[c].state = "running")
       => now - exec[c].start_time <= ContainerTimeout
    /\ (Returned(c) /\ exec[c].timed_out)
       => (result[c].exit_code = 0 - 1 /\ result[c].error = "Execution timed out")

\* a kill request for the job of connection c was answered '1'
KilledOnRequest(c) ==
  \E k \in Conns :
    /\ req[k].kind = "K" /\ req[k].job_id = req[c].job_id
    /\ sent[k] = <<49>>

\* C8 (as claimed): once kill_job returned true for a running job, the
\* streaming loop ends and the JobResult of the execution has exit_code -1
\* and a non-null error (no Docker API exception involved).
C8_KilledResult ==
  \A c \in Conns :
    ( /\ req[c].kind = "J" /\ Returned(c) /\ KilledOnRequest(c)
      /\ ~exec[c].interrupted )
    => (result[c].exit_code = 0 - 1 /\ result[c].error # NoError)

\* the execution of a job killed on request has returned
C8_Witness ==
  \E c \in Conns :
    /\ req[c].kind = "J" /\ Returned(c) /\ KilledOnRequest(c)
    /\ ~exec[c].interrupted

\* C9 (as claimed): when execute_streaming returns, on every path, the
\* job's container, if one was created, is removed, the workspace is
\* deleted and the job_id is not in the running-containers table.
C9_CleanupOnReturn ==
  \A c \in Conns :
    Returned(c)
    => /\ cont[c].state \in {"none", "removed"}
       /\ workspace[c] = "deleted"
       /\ running_containers[req[c].job_id] # c

\* C10 (as claimed): for a successful execution with the connection open,
\* the output frames sent carry, in order, everything the container wrote
\* to its log.
C10_EveryChunkSent ==
  \A c \in Conns :
    ( /\ pc[c] = "exec_finally" /\ peerOpen[c]
      /\ cont[c].state = "exited" /\ cont[c].exit_code = 0
      /\ ~exec[c].interrupted
      /\ result[c].error = NoError )
    => OutputOf(Frames(sent[c])) = Written(cont[c].log)

\* a successful execution all of whose output was streamed
C10_Witness ==
  \E c \in Conns :
    /\ pc[c] = "exec_finally" /\ peerOpen[c]
    /\ cont[c].state = "exited" /\ cont[c].exit_code = 0
    /\ ~exec[c].interrupted
    /\ cont[c].log = MaxChunks
    /\ OutputOf(Frames(sent[c])) = Written(cont[c].log)

\* ======================================================= client: the calls
\* every variable of the worker
workerVars == << now, ticks, pc, req, sent, peerOpen, running_jobs,
                 running_containers, cont, workspace, exec, result, history,
                 status, cres, callbacks, auth >>

\* What the caller gets back. kind: "result" (a JobResult), "bool", "list",
\* "None", or "raised" when an exception leaves the call.
Ret(kind, res, flag, jobs) ==
  [kind |-> kind, result |-> res, flag |-> flag, jobs |-> jobs]
Raised == Ret("raised", NoResult, FALSE, <<>>)

\* The connection a call meets: how connect() ends, the bytes the peer
\* writes, and what follows them (the peer closes, the connection is reset,
\* or nothing more arrives before the socket timeout).
Connects == {"ok", "refused", "timeout", "reset"}
Ends == {"eof", "reset", "silent"}

SampleResults ==
  { JobResult("j1", 0, <<"a">>, NoError),
    JobResult("j1", 1, <<>>, NoError),
    JobResult("error", 0 - 1, <<>>, "Worker error") }

\* length-prefixed payload, as _send_error and _handle_list_request write it
Prefixed(payload) == ToBytes4(Len(payload)) \o payload

\* complete replies a peer may write: results with and without the kind
\* byte, an unparsable body, an empty body, kill verdicts, job lists
Replies ==
  { Prefixed(serialize_result(r)) : r \in SampleResults }
  \cup { <<82>> \o Prefixed(serialize_result(r)) : r \in SampleResults }
  \cup { Prefixed(<<9, 9>>), Prefixed(<<>>), <<48>>, <<49>>,
         <<49>> \o Prefixed(serialize_jobs(<<"j1", "j2">>)),
         <<49>> \o Prefixed(serialize_jobs(<<"j1">>)),
         <<49>> \o Prefixed(serialize_jobs(<<>>)),
         <<49>> \o Prefixed(<<>>), <<49>> \o Prefixed(<<9>>) }

\* what has arrived when the connection ends: any prefix of a reply
Streams == UNION { { SubSeq(r, 1, n) : n \in 0..Len(r) } : r \in Replies }

ConnOutcomes ==
  [connect : {"ok"}, stream : Streams, end : Ends]
  \cup [connect : Connects \ {"ok"}, stream : {<<>>}, end : {"eof"}]

\* Client._recv_exactly(sock, n) on the unread bytes: the data, None when the
\* peer closed first, or the exception recv raises
recv_exactly(unread, n, end) ==
  IF Len(unread) >= n THEN [kind |-> "data", data |-> SubSeq(unread, 1, n)]
  ELSE IF end = "eof" THEN [kind |-> "None", data |-> <<>>]
  ELSE [kind |-> IF end = "silent" THEN "timeout" ELSE "reset", data |-> <<>>]

\* (mutant) run_job without its last handler, except Exception
run_job_except_NoCatchAll(job_id, e) ==
  CASE e = "timeout" ->
         Ret("result", JobResult(job_id, 0 - 1, <<>>, "Connection timed out"),
             FALSE, <<>>)
    [] e = "refused" ->
         Ret("result", JobResult(job_id, 0 - 1, <<>>, "Connection refused"),
             FALSE, <<>>)
    [] OTHER -> Raised

\* the except clauses of run_job: socket.timeout, ConnectionRefusedError,
\* Exception (error = str(e))
run_job_except(job_id, e) ==
  CASE e = "timeout" ->
         Ret("result", JobResult(job_id, 0 - 1, <<>>, "Connection timed out"),
             FALSE, <<>>)
    [] e = "refused" ->
         Ret("result", JobResult(job_id, 0 - 1, <<>>, "Connection refused"),
             FALSE, <<>>)
    [] OTHER -> Ret("result", JobResult(job_id, 0 - 1, <<>>, e), FALSE, <<>>)

\* Client.run_job on one connection
run_job_call(job_id, conn) ==
  IF conn.connect # "ok" THEN run_job_except(job_id, conn.connect)
  ELSE
    LET length_bytes == recv_exactly(conn.stream, 4, conn.end)
    IN IF length_bytes.kind \in {"timeout", "reset"}
       THEN run_job_except(job_id, length_bytes.kind)
       ELSE IF length_bytes.kind = "None"
       THEN Ret("result",
                JobResult(job_id, 0 - 1, <<>>, "Connection closed by peer"),
                FALSE, <<>>)
       ELSE
         LET length == FromBytes4(length_bytes.data)
             result_data == recv_exactly(SubSeq(conn.stream, 5, Len(conn.stream)),
                                         length, conn.end)
         IN IF result_data.kind \in {"timeout", "reset"}
            THEN run_job_except(job_id, result_data.kind)
            ELSE IF result_data.kind = "None" \/ result_data.data = <<>>
            THEN Ret("result",
                     JobResult(job_id, 0 - 1, <<>>,
                               "Failed to receive result from peer"),
                     FALSE, <<>>)
            ELSE LET res == deserialize_result(result_data.data)
                 IN IF res.job_id = "none"
                    THEN run_job_except(job_id, "parse error")
                    ELSE Ret("result", res, FALSE, <<>>)

\* Client.kill_job on one connection: one recv(1); any exception is False
kill_job_call(conn) ==
  IF conn.connect # "ok" THEN Ret("bool", NoResult, FALSE, <<>>)
  ELSE IF conn.stream = <<>>
  THEN Ret("bool", NoResult, FALSE, <<>>)
  ELSE Ret("bool", NoResult, conn.stream[1] = CharByte("1"), <<>>)

PythonNone == Ret("None", NoResult, FALSE, <<>>)

\* json.loads of a job list: the listed job ids, or a failure
JobListWellFormed(bs) ==
  /\ Len(bs) >= 1
  /\ bs[1] = Len(bs) - 1
  /\ \A i \in 2..Len(bs) : bs[i] \in 1..Len(JobIdTexts)

\* Client.list_jobs on one connection
list_jobs_call(conn) ==
  IF conn.connect # "ok" THEN PythonNone
  ELSE IF conn.stream = <<>> THEN PythonNone
  ELSE IF conn.stream[1] # CharByte("1") THEN PythonNone
  ELSE
    LET length_bytes == recv_exactly(Tail(conn.stream), 4, conn.end)
    IN IF length_bytes.kind # "data" THEN PythonNone
       ELSE
         LET length == FromBytes4(length_bytes.data)
             response_data == recv_exactly(SubSeq(conn.stream, 6, Len(conn.stream)),
                                           length, conn.end)
         IN IF response_data.kind # "data" \/ response_data.data = <<>>
            THEN PythonNone
            ELSE IF ~JobListWellFormed(response_data.data) THEN PythonNone
            ELSE Ret("list", NoResult, FALSE,
                     [i \in 1..(Len(response_data.data) - 1) |->
                        JobIdTexts[response_data.data[i + 1]]])

Call(op, job_id, conn) == [op |-> op, job_id |-> job_id, conn |-> conn]

CallRunJob ==
  /\ call = NoCall
  /\ \E job_id \in JobIds, conn \in ConnOutcomes :
       /\ call' = Call("run_job", job_id, conn)
       /\ ret' = run_job_call(job_id, conn)
  /\ UNCHANGED << workerVars, discVars, sideVars >>

CallKillJob ==
  /\ call = NoCall
  /\ \E job_id \in JobIds, conn \in ConnOutcomes :
       /\ call' = Call("kill_job", job_id, conn)
       /\ ret' = kill_job_call(conn)
  /\ UNCHANGED << workerVars, discVars, sideVars >>

CallListJobs ==
  /\ call = NoCall
  /\ \E conn \in ConnOutcomes :
       /\ call' = Call("list_jobs", "none", conn)
       /\ ret' = list_jobs_call(conn)
  /\ UNCHANGED << workerVars, discVars, sideVars >>

ClientNext == CallRunJob \/ CallKillJob \/ CallListJobs

ClientSpec == Init /\ [][ClientNext]_vars

\* the reply holds a complete, parsable, length-prefixed JobResult
HoldsResult(stream) ==
  /\ Len(stream) >= 4
  /\ FromBytes4(SubSeq(stream, 1, 4)) > 0
  /\ Len(stream) >= 4 + FromBytes4(SubSeq(stream, 1, 4))
  /\ WellFormedResult(SubSeq(stream, 5, 4 + FromBytes4(SubSeq(stream, 1, 4))))

\* the reply holds a complete, parsable job list after '1'
HoldsList(stream) ==
  /\ Len(stream) >= 5
  /\ FromBytes4(SubSeq(stream, 2, 5)) > 0
  /\ Len(stream) >= 5 + FromBytes4(SubSeq(stream, 2, 5))
  /\ JobListWellFormed(SubSeq(stream, 6, 5 + FromBytes4(SubSeq(stream, 2, 5))))

Codes == { <<>>, <<255>>, <<104, 105>>, <<0, 1, 2, 3>> }
ArgLists == { <<>>, <<"x", "y">> }
JobFiles == { <<>>, [n \in {"d.txt"} |-> <<7>>] }
Images == { "python:3.11-slim", "python:3.9" }

\* The jobs of the command line: create_job(...) with the resolved image,
\* created at most AuthWindow before or after the receiver's clock.
Jobs ==
  [ job_id : {"j1"}, sender : Names, filename : {"e.py"}, code : Codes,
    args : ArgLists, files : JobFiles, require_gpu : BOOLEAN, image : Images,
    timestamp : {0 - AuthWindow, 0, AuthWindow} ]

\* serialize_job: the payload json.dumps writes, with its auth envelope
serialize_job(job, group_secret) ==
  [ malformed |-> FALSE,
    job_id |-> job.job_id,
    sender |-> job.sender,
    filename |-> job.filename,
    code |-> b64encode(job.code),
    args |-> job.args,
    files |-> [k \in DOMAIN job.files |-> b64encode(job.files[k])],
    require_gpu |-> job.require_gpu,
    timestamp |-> job.timestamp,
    hmac |-> compute_auth_hmac(job.job_id, job.timestamp, group_secret) ]

\* the Job that deserialize_job builds from a verified payload
JobOf(payload) ==
  [ job_id |-> payload.job_id,
    sender |-> payload.sender,
    filename |-> payload.filename,
    code |-> b64decode(payload.code),
    args |-> payload.args,
    files |-> [k \in DOMAIN payload.files |-> b64decode(payload.files[k])],
    require_gpu |-> payload.require_gpu,
    timestamp |-> payload.timestamp ]

\* deserialize_job(serialize_job(job, s), GroupSecret) at the given clock:
\* the ValueError, or the job
JobRoundTrip ==
  /\ call = NoCall
  /\ \E job \in Jobs, s \in Secrets :
       LET payload == serialize_job(job, s)
           error == deserialize_job(payload, now)
       IN /\ call' = [op |-> "job_round_trip", job |-> job, secret |-> s]
          /\ ret' = [ kind |-> IF error = "ok" THEN "job" ELSE "ValueError",
                      error |-> error,
                      job |-> IF error = "ok" THEN JobOf(payload) ELSE <<>> ]
  /\ UNCHANGED << workerVars, discVars, sideVars >>

OutputFiles ==
  { <<>>, [n \in {"out.txt"} |-> <<255>>],
    [n \in {"out.txt", "m.bin"} |-> IF n = "m.bin" THEN <<0, 1, 2, 3>> ELSE <<104, 105>>] }

JobResults ==
  [ job_id : {"j1"}, exit_code : {0, 1, 0 - 1, 137},
    stdout : { <<>>, <<"a", "b">> }, stderr : { <<>>, <<"c">> },
    output_files : OutputFiles, runtime_seconds : {0, 3},
    error : {NoError, "Execution timed out"} ]

\* deserialize_result(serialize_result(res))
ResultRoundTrip ==
  /\ call = NoCall
  /\ \E res \in JobResults :
       /\ call' = [op |-> "result_round_trip", result |-> res]
       /\ ret' = Ret("result", deserialize_result(serialize_result(res)),
                     FALSE, <<>>)
  /\ UNCHANGED << workerVars, discVars, sideVars >>

JobsNext == JobRoundTrip \/ ResultRoundTrip

JobsSpec == Init /\ [][JobsNext]_vars

\* the fields of a job in the data model
JobFields ==
  { "job_id", "sender", "filename", "code", "args", "files", "require_gpu",
    "image", "timestamp" }

\* C12 (as claimed): a fresh job serialized and deserialized under the same
\* secret comes back equal in every field of the data model, the image
\* included; under another secret deserialize_job fails with an
\* authentication error.
C12_JobRoundTrip ==
  call.op = "job_round_trip"
  => /\ call.secret = GroupSecret
        => /\ ret.kind = "job"
           /\ \A f \in JobFields :
                f \in DOMAIN ret.job /\ ret.job[f] = call.job[f]
     /\ call.secret # GroupSecret
        => (ret.kind = "ValueError" /\ ret.error \in AuthErrors)

\* a job with files came back under the right secret, equal in all the
\* fields the payload carries
C12_Witness ==
  /\ call.op = "job_round_trip" /\ call.secret = GroupSecret
  /\ call.job.files # <<>> /\ Len(call.job.code) = 4
  /\ ret.kind = "job"
  /\ \A f \in DOMAIN ret.job : ret.job[f] = call.job[f]

\* C13: a JobResult serialized and deserialized comes back equal field by
\* field: output_files with the same keys and the same bytes, a null error
\* still null.
C13_ResultRoundTrip ==
  call.op = "result_round_trip"
  => /\ ret.result = call.result
     /\ DOMAIN ret.result.output_files = DOMAIN call.result.output_files
     /\ \A n \in DOMAIN call.result.output_files :
          ret.result.output_files[n] = call.result.output_files[n]
     /\ (call.result.error = NoError => ret.result.error = NoError)

\* a result with two output files and a null error made the round trip
C13_Witness ==
  /\ call.op = "result_round_trip"
  /\ DOMAIN call.result.output_files = {"out.txt", "m.bin"}
  /\ call.result.error = NoError /\ call.result.exit_code = 137
  /\ ret.result = call.result

\* ===================================================== discovery: steps
\* _listen_loop: one datagram through _handle_message
HandleMessage ==
  /\ \E name \in PeerNames, secret \in Secrets, form \in Forms :
       /\ CanSend(name, secret, form)
       /\ LET d == Datagram(name, secret, form)
          IN /\ dgram' = d
             /\ IF Accepts(d)
                THEN /\ peers' = [peers EXCEPT ![name] = [last_seen |-> now]]
                     /\ notified' =
                          IF peers[name] = NoPeer
                          THEN [notified EXCEPT !.joined = @ + 1]
                          ELSE notified
                ELSE UNCHANGED << peers, notified >>
  /\ UNCHANGED << peer_timeout, sending, stopped_at, next_pass >>
  /\ UNCHANGED << workerVars, call, ret, sideVars >>

\* _cleanup_loop: one pass after time.sleep(peer_timeout / 2)
CleanupPass ==
  /\ now = next_pass
  /\ LET dead_peers == { n \in PeerNames :
                           peers[n] # NoPeer /\ ~is_alive(peers[n], now) }
     IN /\ peers' = [n \in PeerNames |->
                       IF n \in dead_peers THEN NoPeer ELSE peers[n]]
        /\ notified' = [notified EXCEPT !.left = @ + Cardinality(dead_peers)]
  /\ next_pass' = now + peer_timeout \div 2
  /\ dgram' = NoDgram
  /\ UNCHANGED << peer_timeout, sending, stopped_at >>
  /\ UNCHANGED << workerVars, call, ret, sideVars >>

\* the member goes down: no heartbeat of it is sent from now on
MemberStops ==
  /\ sending
  /\ sending' = FALSE
  /\ stopped_at' = now
  /\ dgram' = NoDgram
  /\ UNCHANGED << peers, peer_timeout, next_pass, notified >>
  /\ UNCHANGED << workerVars, call, ret, sideVars >>

\* the member comes back
MemberResumes ==
  /\ ~sending
  /\ sending' = TRUE
  /\ stopped_at' = 0
  /\ dgram' = NoDgram
  /\ UNCHANGED << peers, peer_timeout, next_pass, notified >>
  /\ UNCHANGED << workerVars, call, ret, sideVars >>

\* one second passes; a cleanup pass that is due comes first
DiscTick ==
  /\ now < MaxTime
  /\ now < next_pass
  /\ now' = now + 1
  /\ dgram' = NoDgram
  /\ UNCHANGED << peers, peer_timeout, sending, stopped_at, next_pass, notified >>
  /\ UNCHANGED << ticks, pc, req, sent, peerOpen, running_jobs,
                  running_containers, cont, workspace, exec, result, history,
                  status, cres, callbacks, auth, call, ret, sideVars >>

DiscInit ==
  /\ WorkerInit
  /\ CallInit
  /\ SideInit
  /\ \E timeout \in PeerTimeouts : DiscStart(timeout)

DiscNext ==
  HandleMessage \/ CleanupPass \/ MemberStops \/ MemberResumes \/ DiscTick

DiscSpec == DiscInit /\ [][DiscNext]_vars

\* ----------------------------------------------------- discovery: claims
\* the signature of a datagram is the group's over the heartbeat it carries
SignedByGroup(d) == d.sig = <<GroupSecret, d.heartbeat>>

\* C14: a datagram that is malformed, is not signed with the group secret or
\* carries this node's own name leaves the peer map unchanged and invokes no
\* callback; the peer map never holds an entry for this node's own name nor
\* for a sender without the group secret.
C14_OnlySignedOthersAdmitted ==
  /\ [](peers[OwnName] = NoPeer /\ peers["x"] = NoPeer)
  /\ [][ ( /\ dgram' # NoDgram
           /\ \/ ~dgram'.json
              \/ ~dgram'.heartbeat.complete
              \/ ~SignedByGroup(dgram')
              \/ dgram'.heartbeat.name = OwnName )
         => (peers' = peers /\ notified' = notified) ]_vars

\* a well-formed heartbeat in the member's name, signed with another secret,
\* was handled and the member is still unknown
C14_Witness ==
  /\ dgram.json /\ dgram.heartbeat.complete
  /\ dgram.heartbeat.name = Member
  /\ dgram.sig = <<"other", dgram.heartbeat>>
  /\ peers[Member] = NoPeer
  /\ notified.joined = 0

\* C15 (as claimed): get_peers returns exactly the entries seen less than
\* the configured peer_timeout ago.
C15_GetPeersAlive ==
  get_peers = { n \in PeerNames :
                  peers[n] # NoPeer /\ now - peers[n].last_seen < peer_timeout }

\* an entry is older than the default window under a longer peer_timeout
C15_Witness ==
  /\ peers[Member] # NoPeer
  /\ now - peers[Member].last_seen >= AliveWindow
  /\ now - peers[Member].last_seen < peer_timeout

\* C16 (as claimed): a cleanup pass removes every entry seen peer_timeout or
\* more ago, exactly peer_timeout included, and no younger one; passes are
\* peer_timeout / 2 apart.
C16_ReaperEvicts ==
  [][ next_pass' # next_pass
      => /\ next_pass' - next_pass = peer_timeout \div 2
         /\ \A n \in PeerNames :
              peers[n] # NoPeer
              => IF now - peers[n].last_seen >= peer_timeout
                 THEN peers'[n] = NoPeer
                 ELSE peers'[n] = peers[n] ]_vars

\* a pass has evicted an entry exactly peer_timeout old
C16_Witness ==
  /\ notified.left = 1
  /\ peers[Member] = NoPeer
  /\ peer_timeout = DefaultPeerTimeout
  /\ now = DefaultPeerTimeout
  /\ next_pass = now + peer_timeout \div 2
  /\ dgram = NoDgram

\* C17 (as claimed): peer_timeout + heartbeat_interval after the member
\* stopped sending, and from then on until it sends again, get_peers does not
\* return it.
C17_StoppedPeerAbsent ==
  (~sending /\ now - stopped_at >= peer_timeout + HeartbeatInterval)
  => Member \notin get_peers

\* the member has been down for peer_timeout + heartbeat_interval and is gone
C17_Witness ==
  /\ ~sending /\ now - stopped_at >= peer_timeout + HeartbeatInterval
  /\ notified.joined > 0
  /\ Member \notin get_peers

\* ======================================================== peer selection
NoGpu == "None"
PeerStats ==
  [ status : {"idle", "busy"}, gpu_name : {NoGpu, "rtx"},
    ram_free_gb : {4, 8}, cpu_percent_used : {0, 50} ]

WithName(stats, name) ==
  [ name |-> name, status |-> stats.status, gpu_name |-> stats.gpu_name,
    ram_free_gb |-> stats.ram_free_gb,
    cpu_percent_used |-> stats.cpu_percent_used ]

\* what get_peers() or the daemon's cache hands over: up to two peers
\* with distinct names
PeerLists ==
  {<<>>}
  \cup { <<WithName(s, "b")>> : s \in PeerStats }
  \cup { <<WithName(s, "b"), WithName(t, "c")>> : s \in PeerStats, t \in PeerStats }

NoName == "none"
Wanted == {NoName, "c", "z"}

\* (mutant) the CPU load does not count
score_IgnoresCpu(p, require_gpu) ==
  p.ram_free_gb * 100
  + (IF p.gpu_name # NoGpu /\ require_gpu THEN 200 ELSE 0)

\* score(p), in hundredths: ram_free_gb * (100 - cpu_percent_used) / 100
\* + 2.0 when a GPU is required and there
score(p, require_gpu) ==
  p.ram_free_gb * (100 - p.cpu_percent_used)
  + (IF p.gpu_name # NoGpu /\ require_gpu THEN 200 ELSE 0)

\* the indices of the peers that pass the filter
Available(peer_list, require_gpu) ==
  { i \in 1..Len(peer_list) :
      /\ peer_list[i].status = "idle"
      /\ (~require_gpu \/ peer_list[i].gpu_name # NoGpu) }

\* max(available, key=score): the first of the peers with the highest score
MaxByScore(peer_list, available, require_gpu) ==
  LET best == { i \in available :
                  \A j \in available :
                     score(peer_list[i], require_gpu)
                       >= score(peer_list[j], require_gpu) }
  IN peer_list[CHOOSE i \in best : \A j \in best : i <= j]

Chosen(peer) == [kind |-> "peer", peer |-> peer, message |-> ""]
Failed(message) == [kind |-> "failed", peer |-> <<>>, message |-> message]

\* Discovery.get_best_peer on the peers get_peers() returned
get_best_peer(peer_list, require_gpu) ==
  LET available == Available(peer_list, require_gpu)
  IN IF available = {} THEN Failed("None")
     ELSE Chosen(MaxByScore(peer_list, available, require_gpu))

\* the selection of `homie run`: --peer NAME, or the best available peer
select_peer(peer_list, peer, gpu) ==
  IF peer # NoName
  THEN LET named == { i \in 1..Len(peer_list) : peer_list[i].name = peer }
       IN IF named = {} THEN Failed("Peer not found")
          ELSE Chosen(peer_list[CHOOSE i \in named : \A j \in named : i <= j])
  ELSE LET available == Available(peer_list, gpu)
       IN IF available = {} THEN Failed("No available peers found")
          ELSE Chosen(MaxByScore(peer_list, available, gpu))

GetBestPeer ==
  /\ call = NoCall
  /\ \E peer_list \in PeerLists, require_gpu \in BOOLEAN :
       /\ call' = [ op |-> "get_best_peer", peer_list |-> peer_list,
                    name |-> NoName, require_gpu |-> require_gpu ]
       /\ ret' = get_best_peer(peer_list, require_gpu)
  /\ UNCHANGED << workerVars, discVars, sideVars >>

SelectPeer ==
  /\ call = NoCall
  /\ \E peer_list \in PeerLists, peer \in Wanted, gpu \in BOOLEAN :
       /\ call' = [ op |-> "select_peer", peer_list |-> peer_list,
                    name |-> peer, require_gpu |-> gpu ]
       /\ ret' = select_peer(peer_list, peer, gpu)
  /\ UNCHANGED << workerVars, discVars, sideVars >>

SelectNext == GetBestPeer \/ SelectPeer

SelectSpec == Init /\ [][SelectNext]_vars

\* the peers of a list, and those a job may go to
PeersOf(peer_list) == { peer_list[i] : i \in 1..Len(peer_list) }
Eligible(peer_list, require_gpu) ==
  { p \in PeersOf(peer_list) :
      p.status = "idle" /\ (~require_gpu \/ p.gpu_name # NoGpu) }
\* ram_free_gb * (100 - cpu_percent_used) / 100 + 2.0 with a required GPU,
\* times 100
Score100(p, require_gpu) ==
  p.ram_free_gb * (100 - p.cpu_percent_used)
  + (IF require_gpu /\ p.gpu_name # NoGpu THEN 200 ELSE 0)

\* C18: without a name, selection fails when no peer is idle (and has a GPU
\* if one is required) and otherwise returns such a peer whose score is
\* maximal among them; with a name it returns the entry of that name,
\* whatever its status, or fails with 'peer not found'.
C18_BestPeerSelected ==
  call.op \in {"get_best_peer", "select_peer"}
  => IF call.name = NoName
     THEN LET eligible == Eligible(call.peer_list, call.require_gpu)
          IN IF eligible = {} THEN ret.kind = "failed"
             ELSE /\ ret.kind = "peer"
                  /\ ret.peer \in eligible
                  /\ \A q \in eligible :
                       Score100(ret.peer, call.require_gpu)
                         >= Score100(q, call.require_gpu)
     ELSE IF \E p \in PeersOf(call.peer_list) : p.name = call.name
          THEN /\ ret.kind = "peer"
               /\ ret.peer \in PeersOf(call.peer_list)
               /\ ret.peer.name = call.name
          ELSE ret.kind = "failed" /\ ret.message = "Peer not found"

\* of two idle peers the second, less loaded one was selected
C18_Witness ==
  /\ call.op = "select_peer" /\ call.name = NoName /\ ~call.require_gpu
  /\ Len(call.peer_list) = 2
  /\ call.peer_list[1].status = "idle" /\ call.peer_list[2].status = "idle"
  /\ call.peer_list[1].ram_free_gb = call.peer_list[2].ram_free_gb
  /\ call.peer_list[1].cpu_percent_used > call.peer_list[2].cpu_percent_used
  /\ ret.kind = "peer" /\ ret.peer = call.peer_list[2]

\* ------------------------------------------- worker: oversize and list claims
\* one length-prefixed JobResult with exit_code -1 and error
\* "Job payload too large"
IsTooLargeFrame(bs) ==
  /\ Len(bs) > 4
  /\ Len(bs) = 4 + FromBytes4(SubSeq(bs, 1, 4))
  /\ LET res == deserialize_result(SubSeq(bs, 5, Len(bs)))
     IN /\ res.exit_code = 0 - 1
        /\ res.error = "Job payload too large"

\* C19 (as claimed): a request of any kind whose length prefix exceeds
\* 100 MiB is answered with an error frame and its connection closed at
\* once, and the step changes neither the running-jobs table, the history,
\* the status nor any container.
C19_OversizeAborted ==
  [][ (auth'.kind \in {"J", "K", "L"} /\ auth'.length > MaxPayload)
      => ( /\ pc'[auth'.conn] = "closed"
           /\ IsTooLargeFrame(sent'[auth'.conn])
           /\ UNCHANGED << running_jobs, running_containers, cont, workspace,
                           history, status >> ) ]_vars

\* an oversize job submission was refused with the error frame
C19_Witness ==
  /\ auth.kind = "J" /\ auth.length > MaxPayload
  /\ pc[auth.conn] = "closed"
  /\ IsTooLargeFrame(sent[auth.conn])

\* C20 (as claimed): a list request is answered '1' and the job list only if
\* its HMAC over list:timestamp verifies and its timestamp is within 300 s;
\* a validly signed one with a timestamp more than 300 s off gets '0'.
C20_ListNeedsFreshAuth ==
  (auth.kind = "L" /\ ~auth.malformed /\ auth.length <= MaxPayload)
  => /\ (sent[auth.conn] # <<>> /\ sent[auth.conn][1] = 49)
        => (ValidSignature(auth) /\ Fresh(auth))
     /\ (ValidSignature(auth) /\ ~Fresh(auth)) => sent[auth.conn] = <<48>>

\* a validly signed, fresh list request was answered with a running job
C20_Witness ==
  /\ auth.kind = "L" /\ ValidSignature(auth) /\ Fresh(auth)
  /\ \E j \in JobIds :
       /\ running_jobs[j] # NoJob
       /\ sent[auth.conn] =
            <<49>> \o ToBytes4(2) \o <<1, IndexOf(JobIdTexts, j)>>

\* ====================================================== history: callers
\* The threads that call the history module as _execute_job_streaming does:
\* append_job_start when the job starts, update_job_completion when it has
\* ended.  history.py takes no lock, so the read and the rewrite inside
\* update_job_completion are separate steps. Every entry has the peer "c".
Outcomes == { [exit_code |-> 0, runtime_seconds |-> 1],
              [exit_code |-> 1, runtime_seconds |-> 2] }

\* time.time() moves on
HistTick ==
  /\ now < MaxHistTime
  /\ now' = now + 1
  /\ UNCHANGED << history, hthread, hdone >>

\* append_job_start(job_id, ..., role): one more line at the end of the file
append_job_start(t) ==
  /\ hthread[t].pc = "idle"
  /\ hdone.appended < MaxAppends
  /\ \E job_id \in JobIds, role \in Roles :
       /\ history' = Append(history, JobHistoryEntry(job_id, "c", role, now))
       /\ hthread' = [hthread EXCEPT ![t] =
                        [NoThread EXCEPT !.pc = "running", !.job_id = job_id,
                                         !.role = role]]
  /\ hdone' = [hdone EXCEPT !.appended = @ + 1]
  /\ UNCHANGED now

\* update_job_completion, first half: read_history() and the loop that
\* patches the list in memory; with no match the call returns here
update_job_completion_read(t) ==
  /\ hthread[t].pc = "running"
  /\ \E o \in Outcomes :
       LET entries == read_all(history)
           patched == patch_entries(entries, hthread[t].job_id, o.exit_code,
                                    o.runtime_seconds, NoError, 0, now)
       IN hthread' = [hthread EXCEPT ![t] =
                        IF patched.updated
                        THEN [@ EXCEPT !.pc = "write", !.read = entries,
                                       !.entries = patched.entries]
                        ELSE NoThread]
  /\ UNCHANGED << now, history, hdone >>

\* update_job_completion, second half: _write_history(entries)
update_job_completion_write(t) ==
  /\ hthread[t].pc = "write"
  /\ history' = write_history(hthread[t].entries)
  /\ hthread' = [hthread EXCEPT ![t] = NoThread]
  /\ hdone' = [hdone EXCEPT !.patched = @ + 1,
                            !.truncated = @ + Len(hthread[t].entries)
                                            - Len(write_history(hthread[t].entries))]
  /\ UNCHANGED now

\* the executor raised: _execute_job_streaming leaves through its finally
\* and update_job_completion is never called
JobRaises(t) ==
  /\ hthread[t].pc = "running"
  /\ hthread' = [hthread EXCEPT ![t] = NoThread]
  /\ UNCHANGED << now, history, hdone >>

HistNext ==
  \/ /\ HistTick
     /\ UNCHANGED << ticks, pc, req, sent, peerOpen, running_jobs,
                     running_containers, cont, workspace, exec, result, status,
                     cres, callbacks, auth, call, ret, discVars,
                     sender_history, capVars, stopVars,
                     lateVars >>
  \/ /\ \E t \in HistThreads :
          \/ append_job_start(t)
          \/ update_job_completion_read(t)
          \/ update_job_completion_write(t)
          \/ JobRaises(t)
     /\ UNCHANGED << ticks, pc, req, sent, peerOpen, running_jobs,
                     running_containers, cont, workspace, exec, result, status,
                     cres, callbacks, auth, call, ret, discVars,
                     sender_history, capVars, stopVars,
                     lateVars >>

HistSpec == Init /\ [][HistNext]_vars

\* ------------------------------------------------------ history: claims
\* the open entries of a list that belong to a job and a role
OpenOf(entries, job_id, role) ==
  { i \in 1..Len(entries) : /\ entries[i].job_id = job_id
                            /\ entries[i].role = role
                            /\ entries[i].end_time = Null }

\* the entries the patch changed
Changed(t) ==
  { i \in 1..Len(hthread[t].read) : hthread[t].entries[i] # hthread[t].read[i] }

\* C21: when update_job_completion has patched the entries it read, exactly
\* one entry differs from what was read: it was open, has the job_id and the
\* role of the caller, no open entry of that job_id and role is more recent,
\* and it now carries the completion fields; every other entry is as read.
C21_PatchesMostRecentOpen ==
  \A t \in HistThreads :
    hthread[t].pc = "write" =>
      /\ Len(hthread[t].entries) = Len(hthread[t].read)
      /\ \E i \in 1..Len(hthread[t].read) :
           /\ Changed(t) = {i}
           /\ i \in OpenOf(hthread[t].read, hthread[t].job_id, hthread[t].role)
           /\ \A j \in OpenOf(hthread[t].read, hthread[t].job_id, hthread[t].role) :
                hthread[t].read[j].start_time <= hthread[t].read[i].start_time
           /\ hthread[t].entries[i].end_time # Null

\* C21 (where it holds): the job has one open entry in the file; the patch
\* completes it and changes no other entry
C21_Witness ==
  \E t \in HistThreads :
    /\ hthread[t].pc = "write"
    /\ Len(hthread[t].read) = 3
    /\ \E i \in 1..3 :
         /\ Changed(t) = {i}
         /\ { j \in 1..3 : hthread[t].read[j].job_id = hthread[t].job_id
                            /\ hthread[t].read[j].end_time = Null } = {i}
         /\ hthread[t].read[i].role = hthread[t].role

\* thread t's update_job_completion rewrites the file in this step
Rewrites(t) == hthread[t].pc = "write" /\ hthread'[t].pc = "idle"

Count(s, x) == Cardinality({ i \in 1..Len(s) : s[i] = x })
Range(s) == { s[i] : i \in 1..Len(s) }

\* the entries of a list that a file holds fewer times than the list does
Dropped(entries, file) ==
  { x \in Range(entries) : Count(file, x) < Count(entries, x) }

\* C22: a rewrite leaves at most MAX_HISTORY_ENTRIES entries in the file; no
\* entry it drops was started later than an entry it keeps; and the entry
\* just patched is among those it keeps.
C22_RewriteKeepsNewest ==
  [][ \A t \in HistThreads :
        Rewrites(t) =>
          /\ Len(history') <= MAX_HISTORY_ENTRIES
          /\ \A d \in Dropped(hthread[t].entries, history') :
               \A k \in Range(history') : d.start_time <= k.start_time
          /\ \A i \in Changed(t) : hthread[t].entries[i] \in Range(history')
    ]_vars

\* C22 (where it holds): a rewrite has cut the list off and the file holds
\* exactly MAX_HISTORY_ENTRIES entries
C22_Witness ==
  /\ hdone.truncated > 0
  /\ Len(history) = MAX_HISTORY_ENTRIES

\* no thread is inside a call of the history module
NoCallInProgress == \A t \in HistThreads : hthread[t].pc # "write"

Completed(file) == { i \in 1..Len(file) : file[i].end_time # Null }

\* C23: once every call of append_job_start and update_job_completion has
\* returned, and no more starts were appended than the file may hold, the
\* file holds one entry for every start appended and one completed entry
\* for every completion patch applied.
C23_NoLostUpdate ==
  (NoCallInProgress /\ hdone.appended <= MAX_HISTORY_ENTRIES) =>
    /\ Len(history) = hdone.appended
    /\ Cardinality(Completed(history)) = hdone.patched

\* C23 (where it holds): two jobs were in flight, both starts and both
\* patches are in the file
C23_Witness ==
  /\ NoCallInProgress
  /\ hdone.appended = 2
  /\ hdone.patched = 2
  /\ Len(history) = 2
  /\ Cardinality(Completed(history)) = 2

\* ------------------------------------------- history of a job: claims
\* the entries of a history file for a job under a role
RecordsOf(file, job_id, role) ==
  { i \in 1..Len(file) : file[i].job_id = job_id /\ file[i].role = role }

\* the job of connection c was executed: its container was started
Executed(c) ==
  /\ req[c].kind = "J"
  /\ cont[c].state \in {"running", "exited", "removed"}

\* the handler of connection c has ended
HandlerEnded(c) == pc[c] = "closed"

\* C24: a job whose container was started has a start record with role
\* "plug" in the executor's history and one with role "mooch" in the
\* submitter's; once the handler of an executed job has ended and the client
\* has its result, the record is completed on both sides.
C24_RecordedOnBothSides ==
  \A c \in Conns :
    /\ Executed(c) =>
         /\ RecordsOf(history, req[c].job_id, "plug") # {}
         /\ RecordsOf(sender_history, req[c].job_id, "mooch") # {}
    /\ (Executed(c) /\ HandlerEnded(c) /\ cres[c] # NoResult) =>
         /\ \E i \in RecordsOf(history, req[c].job_id, "plug") :
              history[i].end_time # Null
         /\ \E i \in RecordsOf(sender_history, req[c].job_id, "mooch") :
              sender_history[i].end_time # Null

\* C24 (the executor's side): the job was executed, the handler has ended,
\* the client has the result, and the executor's record is completed
C24_Witness ==
  \E c \in Conns :
    /\ Executed(c) /\ HandlerEnded(c) /\ cres[c] # NoResult
    /\ \E i \in RecordsOf(history, req[c].job_id, "plug") :
         /\ history[i].end_time # Null
         /\ history[i].start_time <= history[i].end_time

\* ====================================================== history: queries
\* read_history and get_history_stats applied to a history file. The files
\* are those of up to MaxFileLen entries, each started at 1 or 2, still open
\* or completed with or without success.
StartTimes == {1, 2}
States == {"open", "succeeded", "failed"}

HistEntry(peer, role, start_time, state) ==
  LET e == JobHistoryEntry("j1", peer, role, start_time)
  IN CASE state = "open" -> e
       [] state = "succeeded" ->
            patch_entries(<<e>>, "j1", 0, 1, NoError, 0, start_time + 1).entries[1]
       [] OTHER ->
            patch_entries(<<e>>, "j1", 1, 3, NoError, 0, start_time + 3).entries[1]

HistEntries ==
  { HistEntry(peer, role, start_time, state) :
      peer \in HistPeers, role \in Roles, start_time \in StartTimes,
      state \in States }

Files == UNION { [1..n -> HistEntries] : n \in 0..MaxFileLen }

Limits == {Null, 0, 1}
Sinces == {Null, 2}

ReadHistory ==
  /\ call = NoCall
  /\ \E limit \in Limits, role \in Roles \cup {NoFilter},
        peer \in HistPeers \cup {NoFilter}, success_only \in BOOLEAN,
        failed_only \in BOOLEAN, since \in Sinces :
       /\ call' = [op |-> "read_history", limit |-> limit, role |-> role,
                   peer |-> peer, success_only |-> success_only,
                   failed_only |-> failed_only, since |-> since]
       /\ ret' = read_history(history, limit, role, peer, success_only,
                              failed_only, since)
  /\ UNCHANGED << workerVars, discVars, sideVars >>

GetHistoryStats ==
  /\ call = NoCall
  /\ call' = [op |-> "get_history_stats"]
  /\ ret' = get_history_stats(history)
  /\ UNCHANGED << workerVars, discVars, sideVars >>

QueryInit ==
  /\ WorkerStart
  /\ history \in Files
  /\ CallInit
  /\ DiscStart(DefaultPeerTimeout)
  /\ SideInit

QueryNext == ReadHistory \/ GetHistoryStats

QuerySpec == QueryInit /\ [][QueryNext]_vars

\* ---------------------------------------------- history queries: claims
\* what a filter of a query asks of an entry
Satisfies(e, q) ==
  /\ q.role # NoFilter => e.role = q.role
  /\ q.peer # NoFilter => e.peer = q.peer
  /\ q.success_only => (e.end_time # Null /\ e.success = "true")
  /\ q.failed_only => (e.end_time # Null /\ e.success = "false")
  /\ q.since # Null => e.start_time >= q.since

Matching(q) == { i \in 1..Len(history) : Satisfies(history[i], q) }

NewestFirst(s) ==
  \A i, j \in 1..Len(s) : i < j => s[i].start_time >= s[j].start_time

Min(a, b) == IF a < b THEN a ELSE b

\* the entries of the file with a property
Having(P(_)) == Cardinality({ i \in 1..Len(history) : P(history[i]) })
IsCompleted(e) == e.end_time # Null
IsOpen(e) == e.end_time = Null
IsSuccessful(e) == e.end_time # Null /\ e.success = "true"
IsFailed(e) == e.end_time # Null /\ e.success # "true"

RECURSIVE TotalRuntime(_)
TotalRuntime(s) ==
  IF s = <<>> THEN 0
  ELSE (IF IsCompleted(s[1]) THEN s[1].runtime_seconds ELSE 0)
       + TotalRuntime(Tail(s))

\* C25: read_history returns only entries of the file that satisfy every
\* filter given, newest first, and with a limit the `limit` newest of the
\* matching entries and no more; get_history_stats counts successful +
\* failed = completed and completed + running = total, and takes the success
\* rate and the mean runtime over the completed entries only.
C25_QueryResults ==
  /\ (call.op = "read_history") =>
       /\ \A k \in 1..Len(ret) :
            \E i \in Matching(call) : ret[k] = history[i]
       /\ NewestFirst(ret)
       /\ call.limit # Null => Len(ret) = Min(call.limit, Cardinality(Matching(call)))
       /\ call.limit = Null => Len(ret) = Cardinality(Matching(call))
       /\ \A i \in Matching(call) :
            (\A k \in 1..Len(ret) : ret[k] # history[i]) =>
              \A k \in 1..Len(ret) : ret[k].start_time >= history[i].start_time
  /\ (call.op = "get_history_stats") =>
       /\ ret.total_jobs = Len(history)
       /\ ret.completed_jobs = Having(IsCompleted)
       /\ ret.successful_jobs = Having(IsSuccessful)
       /\ ret.running_jobs = Having(IsOpen)
       /\ ret.successful_jobs + ret.failed_jobs = ret.completed_jobs
       /\ ret.completed_jobs + ret.running_jobs = ret.total_jobs
       /\ ret.completed_jobs > 0 =>
            /\ ret.success_rate = <<100 * Having(IsSuccessful), Having(IsCompleted)>>
            /\ ret.avg_runtime = <<TotalRuntime(history), Having(IsCompleted)>>

\* C25 (where it holds): a query with a role filter and limit 1 on a file
\* with two matching entries of different age returns the newer one
C25_Witness ==
  /\ call.op = "read_history"
  /\ call.limit = 1 /\ call.role = "plug" /\ ~call.failed_only
  /\ Cardinality(Matching(call)) = 2
  /\ history[1].start_time < history[2].start_time
  /\ ret = <<history[2]>>

\* ------------------------------------------- running-jobs table: claims
\* the job ids the table holds for connection c
TableEntries(c) == { j \in JobIds : running_jobs[j] # NoJob /\ running_jobs[j].conn = c }

\* C26: once the handler of a job submission has ended, on whatever path,
\* the running-jobs table holds no entry of that connection's job (so no
\* list request reports it).
C26_NoEntryAfterHandler ==
  \A c \in Conns :
    (req[c].kind = "J" /\ pc[c] = "closed") => TableEntries(c) = {}

\* C26 (where it holds): the start record was written, the executor raised,
\* the handler answered "Worker error" and ended, and the table is empty
C26_Witness ==
  \E c \in Conns :
    /\ req[c].kind = "J" /\ req[c].accepted /\ pc[c] = "closed"
    /\ RecordsOf(history, req[c].job_id, "plug") # {}
    /\ sent[c] = ErrorFrame("Worker error")
    /\ \A j \in JobIds : running_jobs[j] = NoJob

\* ============================================== executor: containers.run
\* The arguments of every containers.run call of ContainerExecutor. An
\* argument that is not passed has Docker's default: no cpu, memory or pids
\* limit (0, ""), the default bridge network, a writable root file system,
\* the user of the image, no capability dropped, no security option.
Configs ==
  { [ContainerConfig EXCEPT !.cpu_limit = cpu, !.memory_limit = memory,
                            !.network_mode = network] :
      cpu \in {1, 2}, memory \in {"4g", "512m"}, network \in {"none", "bridge"} }

DockerDefaults ==
  [ image |-> "none", nano_cpus |-> 0, mem_limit |-> "", pids_limit |-> 0,
    network_mode |-> "default", read_only |-> FALSE, user |-> "",
    cap_drop |-> {}, security_opt |-> {}, gpu |-> FALSE, remove |-> FALSE ]

\* run_kwargs of execute and of execute_streaming (the same in both)
run_kwargs(config, image, require_gpu) ==
  [ DockerDefaults EXCEPT
      !.image = image,
      !.nano_cpus = config.cpu_limit * NanoCpus,
      !.mem_limit = config.memory_limit,
      !.pids_limit = config.pids_limit,
      !.network_mode = config.network_mode,
      !.read_only = TRUE,
      !.user = "1000:1000",
      !.cap_drop = {"ALL"},
      !.security_opt = {"no-new-privileges:true"},
      !.gpu = require_gpu ]

\* the arguments of the containers.run of has_gpu_support
probe_kwargs ==
  [ DockerDefaults EXCEPT !.image = "nvidia/cuda:12.1-base-ubuntu22.04",
                          !.gpu = TRUE, !.remove = TRUE ]

\* execute(job): containers.run(**run_kwargs) starts the container, or the
\* image is missing and nothing is started
Execute ==
  /\ Len(started) < MaxStarts
  /\ \E require_gpu \in BOOLEAN, found \in BOOLEAN :
       started' = IF found
                  THEN Append(started, run_kwargs(cconfig, "python:3.11-slim", require_gpu))
                  ELSE started
  /\ UNCHANGED cconfig

\* execute_streaming(job, on_output): the same containers.run
ExecuteStreaming ==
  /\ Len(started) < MaxStarts
  /\ \E require_gpu \in BOOLEAN, found \in BOOLEAN :
       started' = IF found
                  THEN Append(started, run_kwargs(cconfig, "python:3.11-slim", require_gpu))
                  ELSE started
  /\ UNCHANGED cconfig

\* has_gpu_support(): runs nvidia-smi in a container of its own; where the
\* host has no GPU runtime Docker refuses to start it
HasGpuSupport ==
  /\ Len(started) < MaxStarts
  /\ \E runtime \in BOOLEAN :
       started' = IF runtime THEN Append(started, probe_kwargs) ELSE started
  /\ UNCHANGED cconfig

CapInit ==
  /\ WorkerInit
  /\ CallInit
  /\ DiscStart(DefaultPeerTimeout)
  /\ HistStart
  /\ sender_history = <<>>
  /\ StopStart
  /\ LateStart
  /\ \E config \in Configs : CapStart(config)

CapNext ==
  /\ Execute \/ ExecuteStreaming \/ HasGpuSupport
  /\ UNCHANGED << workerVars, call, ret, discVars, histVars, sender_history,
                  stopVars, lateVars >>

CapSpec == CapInit /\ [][CapNext]_vars

\* ------------------------------------------------------ executor: claims
\* a container runs under every cap of the configuration
Capped(kwargs, config) ==
  /\ kwargs.nano_cpus = config.cpu_limit * NanoCpus
  /\ kwargs.mem_limit = config.memory_limit
  /\ kwargs.pids_limit = PidsLimit
  /\ kwargs.read_only
  /\ kwargs.cap_drop = {"ALL"}
  /\ "no-new-privileges:true" \in kwargs.security_opt
  /\ kwargs.user = "1000:1000"
  /\ kwargs.network_mode = config.network_mode

\* C27: every container the executor has started runs with the configured
\* cpu and memory limits, pids limit 100, a read-only root file system, all
\* capabilities dropped, no-new-privileges, uid 1000:1000 and the configured
\* network mode.
C27_EveryContainerCapped ==
  \A i \in 1..Len(started) : Capped(started[i], cconfig)

\* C27 (where it holds): two job containers were started, one of them with
\* a GPU, under the default configuration (network "none"), both capped
C27_Witness ==
  /\ cconfig = ContainerConfig
  /\ Len(started) = 2
  /\ started[1].gpu /\ ~started[2].gpu
  /\ \A i \in 1..2 : Capped(started[i], cconfig) /\ started[i].network_mode = "none"

\* ---------------------------------------------------- accept loop: claims
\* connection c is the next the accept loop will get
NextConnection(c) ==
  /\ pc[c] = "idle"
  /\ \A d \in Conns : d < c => pc[d] # "idle"

\* the handler of connection d has failed: unknown kind byte, peer gone,
\* request refused, or an exception answered with "Worker error"
HandlerFailed(d) ==
  /\ pc[d] = "closed"
  /\ \/ req[d].kind \in {"X", "eof"}
     \/ ~req[d].accepted
     \/ ~peerOpen[d]
     \/ sent[d] = ErrorFrame("Worker error")

\* C28: whatever the handlers of the earlier connections are doing or have
\* done (failed, or still running a job), the worker accepts the next
\* connection and handles whatever request arrives on it: a list request, a
\* kill request, an unknown kind byte, and a job submission; and a kill
\* request that was accepted is carried out without waiting for any job.
C28_AcceptLoopStaysUp ==
  \A c \in Conns :
    /\ NextConnection(c) =>
         /\ ENABLED ListRequest(c)
         /\ ENABLED KillRequest(c)
         /\ ENABLED OtherKind(c)
         /\ (Cardinality({ d \in Conns : req[d].kind = "J" }) < MaxJobs)
              => ENABLED JobSubmission(c)
    /\ pc[c] = "kill_lookup" => ENABLED KillLookup(c)
    /\ pc[c] = "kill_container" => ENABLED KillContainer(c)

\* C28 (its cases): the handler of the first connection failed, and the
\* second connection was accepted afterwards and is served: its job runs
C28_Witness ==
  /\ HandlerFailed(1)
  /\ req[1].kind = "X"
  /\ req[2].kind = "J" /\ pc[2] = "stream" /\ cont[2].state = "running"

\* =================================================== stop() and the loops
\* Discovery.stop() and Worker.stop() clear _running and then close the
\* sockets; the four loop threads test _running at the head of every
\* iteration. time.sleep returns and the sockets time out after a second, so
\* every iteration ends. start() is not called again after stop().

\* (mutant) the loop does not test _running
LoopContinues_Forever(flag) == TRUE

\* while self._running:
LoopContinues(flag) == flag = "running"

\* the sockets of the component are open
SocketsOpen(component) == running_flag[component] # "stopped"

\* stop(): self._running = False
StopCalled(component) ==
  /\ running_flag[component] = "running"
  /\ running_flag' = [running_flag EXCEPT ![component] = "stopping"]
  /\ UNCHANGED << loop, effects, peers, notified >>

\* stop(): the sockets are closed
StopCloses(component) ==
  /\ running_flag[component] = "stopping"
  /\ running_flag' = [running_flag EXCEPT ![component] = "stopped"]
  /\ UNCHANGED << loop, effects, peers, notified >>

\* the test at the head of the loop
LoopHead(l) ==
  /\ loop[l] = "head"
  /\ loop' = [loop EXCEPT ![l] = IF LoopContinues(running_flag[Owner(l)])
                                 THEN "body" ELSE "exited"]
  /\ UNCHANGED << running_flag, effects, peers, notified >>

\* _broadcast_loop, one iteration: the heartbeat is sent, or sendto raises
\* (always so on a closed socket) and the exception is swallowed; then sleep
BroadcastBody ==
  /\ loop["broadcast"] = "body"
  /\ \E sent_ok \in BOOLEAN :
       /\ sent_ok => (SocketsOpen("discovery") /\ effects.heartbeats < MaxEvents)
       /\ effects' = [effects EXCEPT !.heartbeats = IF sent_ok THEN @ + 1 ELSE @]
  /\ loop' = [loop EXCEPT !["broadcast"] = "head"]
  /\ UNCHANGED << running_flag, peers, notified >>

\* _listen_loop, one iteration: recvfrom times out or raises, or a heartbeat
\* of the other member arrives and _handle_message stores it
ListenBody ==
  /\ loop["listen"] = "body"
  /\ \E received \in BOOLEAN :
       /\ received => SocketsOpen("discovery")
       /\ received => (peers[Member] # NoPeer \/ notified.joined < MaxEvents)
       /\ IF received
          THEN /\ peers' = [peers EXCEPT ![Member] = [last_seen |-> now]]
               /\ notified' = [notified EXCEPT !.joined =
                                 IF peers[Member] = NoPeer THEN @ + 1 ELSE @]
          ELSE UNCHANGED << peers, notified >>
  /\ loop' = [loop EXCEPT !["listen"] = "head"]
  /\ UNCHANGED << running_flag, effects >>

\* _cleanup_loop, one iteration: sleep, then the entries that are not alive
\* (here: the entry is, or is not) are popped and on_peer_left is called
CleanupBody ==
  /\ loop["cleanup"] = "body"
  /\ \E dead \in BOOLEAN :
       /\ dead => peers[Member] # NoPeer
       /\ IF dead
          THEN /\ peers' = [peers EXCEPT ![Member] = NoPeer]
               /\ notified' = [notified EXCEPT !.left = @ + 1]
          ELSE UNCHANGED << peers, notified >>
  /\ loop' = [loop EXCEPT !["cleanup"] = "head"]
  /\ UNCHANGED << running_flag, effects >>

\* _server_loop, one iteration: accept times out or raises, or returns a
\* connection and the handler thread is started
AcceptBody ==
  /\ loop["accept"] = "body"
  /\ \E accepted \in BOOLEAN :
       /\ accepted => (SocketsOpen("worker") /\ effects.accepted < MaxEvents)
       /\ effects' = [effects EXCEPT !.accepted = IF accepted THEN @ + 1 ELSE @]
  /\ loop' = [loop EXCEPT !["accept"] = "head"]
  /\ UNCHANGED << running_flag, peers, notified >>

\* what no step of a loop or of stop() touches
stopFrame ==
  << workerVars, call, ret, peer_timeout, sending, stopped_at, next_pass, dgram,
     histVars, sender_history, capVars, lateVars >>

\* a step of loop thread l
LoopStep(l) ==
  /\ \/ LoopHead(l)
     \/ l = "broadcast" /\ BroadcastBody
     \/ l = "listen" /\ ListenBody
     \/ l = "cleanup" /\ CleanupBody
     \/ l = "accept" /\ AcceptBody
  /\ UNCHANGED stopFrame

StopNext ==
  \/ \E component \in {"discovery", "worker"} :
       /\ StopCalled(component) \/ StopCloses(component)
       /\ UNCHANGED stopFrame
  \/ \E l \in Loops : LoopStep(l)

\* every loop thread gets to run
StopSpec == Init /\ [][StopNext]_vars /\ \A l \in Loops : WF_vars(LoopStep(l))

\* ------------------------------------------------------- stop(): claims
Exited(l) == loop[l] = "exited"

\* C29: once stop() has been called on a component, each of its loops
\* eventually exits; and once the broadcast loop has exited no heartbeat is
\* sent, once the receive and the reaper loop have exited no entry of the
\* peer map changes and no callback is invoked, once the accept loop has
\* exited no connection is accepted.
C29_LoopsExitAfterStop ==
  /\ \A l \in Loops : [](running_flag[Owner(l)] # "running" => <>Exited(l))
  /\ [][ /\ Exited("broadcast") => effects'.heartbeats = effects.heartbeats
         /\ (Exited("listen") /\ Exited("cleanup"))
              => (peers' = peers /\ notified' = notified)
         /\ Exited("accept") => effects'.accepted = effects.accepted ]_vars

\* C29 (its case): heartbeats were sent, a peer joined and a connection was
\* accepted; then stop() was called on both and all four loops have exited
C29_Witness ==
  /\ effects.heartbeats > 0 /\ effects.accepted > 0 /\ notified.joined > 0
  /\ \A component \in {"discovery", "worker"} : running_flag[component] = "stopped"
  /\ \A l \in Loops : Exited(l)

\* ================================================ executor: output files
\* A file of the workspace as os.walk finds it: the directory below the
\* workspace ("." is the workspace itself), the name, the content, and
\* whether open(filepath, "rb") succeeds (it does not on a file the job made
\* unreadable to the worker, or on a link whose target is gone).
WsFile(root, name, content, readable) ==
  [root |-> root, name |-> name, content |-> content, readable |-> readable]

\* os.path.relpath(os.path.join(root, filename), workspace)
relpath(f) == IF f.root = "." THEN f.name ELSE f.root \o "/" \o f.name

\* the jobs: the script and no file, one file, or two, one in a directory
CollectJobs ==
  { [filename |-> "main.py", code |-> "code", files |-> files] :
      files \in { <<>>, [k \in {"in.txt"} |-> "data"],
                  [k \in {"in.txt", "d/in.txt"} |-> "data"] } }

\* _prepare_workspace: the script and every file of job.files, written
\* under their names (directories of the keys created)
prepare_workspace(job) ==
  { WsFile(".", job.filename, job.code, TRUE) }
  \cup { WsFile(IF k = "d/in.txt" THEN "d" ELSE ".", "in.txt", job.files[k], TRUE) :
           k \in DOMAIN job.files }

\* what the job can have written besides
NewFiles ==
  { WsFile(root, "out.txt", "42", readable) :
      root \in {".", "d"}, readable \in BOOLEAN }

\* the workspaces a job can leave: each input kept, overwritten or deleted,
\* and any of the new files, each path once
Rewritten(f) == [f EXCEPT !.content = "rewritten"]
AtExit(job, over, deleted, new) ==
  { IF f \in over THEN Rewritten(f) ELSE f : f \in prepare_workspace(job) \ deleted }
  \cup new
Workspaces(job) ==
  { AtExit(job, over, deleted, new) :
      over \in SUBSET prepare_workspace(job),
      deleted \in SUBSET prepare_workspace(job),
      new \in { n \in SUBSET NewFiles :
                  \A a, b \in n : relpath(a) = relpath(b) => a = b } }

\* _collect_outputs(workspace, job)
collect_outputs(walked, job) ==
  LET input_files == {job.filename} \cup DOMAIN job.files
      collected == { f \in walked : relpath(f) \notin input_files /\ f.readable }
  IN [ p \in { relpath(f) : f \in collected } |->
         (CHOOSE f \in collected : relpath(f) = p).content ]

\* execute_streaming after the container has exited: the output files of
\* the JobResult
CollectOutputs ==
  /\ call = NoCall
  /\ \E job \in CollectJobs :
       \E workspace_at_exit \in Workspaces(job) :
         /\ call' = [op |-> "collect_outputs", job |-> job,
                     workspace |-> workspace_at_exit]
         /\ ret' = collect_outputs(workspace_at_exit, job)
  /\ UNCHANGED << workerVars, discVars, sideVars >>

CollectNext == CollectOutputs

CollectSpec == Init /\ [][CollectNext]_vars

\* ------------------------------------------------- output files: claims
\* the inputs of a job: its script and the keys of its files
InputPaths(job) == {job.filename} \cup DOMAIN job.files

\* C30: the output files of a job's result are exactly the files present in
\* the workspace at exit whose relative path is not among the inputs, each
\* with its content: no input path is a key, no other file is missing.
C30_OutputsExact ==
  call.op = "collect_outputs" =>
    /\ DOMAIN ret \cap InputPaths(call.job) = {}
    /\ DOMAIN ret = { relpath(f) : f \in call.workspace } \ InputPaths(call.job)
    /\ \A f \in call.workspace :
         relpath(f) \in DOMAIN ret => ret[relpath(f)] = f.content

\* C30 (where it holds): the job overwrote an input and wrote a file in the
\* workspace and one in a directory, both readable; only these two are
\* returned, with their content
C30_Witness ==
  /\ call.op = "collect_outputs"
  /\ DOMAIN call.job.files = {"in.txt", "d/in.txt"}
  /\ \E f \in call.workspace : relpath(f) = "in.txt" /\ f.content = "rewritten"
  /\ \E f \in call.workspace : relpath(f) = "d/in.txt"
  /\ DOMAIN ret = {"out.txt", "d/out.txt"}
  /\ ret["out.txt"] = "42" /\ ret["d/out.txt"] = "42"

\* =============================================== the heartbeat broadcaster
\* Discovery._broadcast_loop, one iteration per heartbeat interval: the
\* message is built and signed once, sent to "<broadcast>" and then to each
\* direct peer. The sendto to "<broadcast>" stands in the outer try only; the
\* sendto to a direct peer has a try of its own.
Ips == { <<"2">>, <<"3">> }
BroadcastAddress == <<"*">>
Targets == {BroadcastAddress} \cup Ips
DirectLists == { <<>>, << <<"2">> >>, << <<"3">> >>,
                 << <<"2">>, <<"3">> >>, << <<"3">>, <<"2">> >> }

\* json.dumps({"heartbeat": heartbeat, "sig": signature}) of interval k
Message(k) ==
  LET heartbeat == [name |-> OwnName, timestamp |-> k]
  IN [heartbeat |-> heartbeat, sig |-> sign_heartbeat(heartbeat, GroupSecret)]

\* the sends of one iteration that reach the network, when sendto raises for
\* the targets in failing
broadcast_once(list, message, failing) ==
  IF BroadcastAddress \in failing
  THEN <<>>
  ELSE LET reached == SelectSeq(list, LAMBDA ip : ip \notin failing)
       IN <<[to |-> BroadcastAddress, message |-> message]>>
          \o [i \in 1..Len(reached) |-> [to |-> reached[i], message |-> message]]

\* one iteration of the loop, the sleep included
BroadcastInterval ==
  /\ intervals < MaxIntervals
  /\ \E failing \in SUBSET Targets :
       /\ datagrams' = broadcast_once(direct_peers, Message(intervals + 1), failing)
       /\ unreachable' = failing
  /\ intervals' = intervals + 1
  /\ UNCHANGED << direct_peers, peers_file >>
  /\ UNCHANGED << workerVars, call, ret, discVars, EarlyVars, imageVars, eventVars >>

BroadcastInit ==
  /\ WorkerInit
  /\ CallInit
  /\ DiscStart(DefaultPeerTimeout)
  /\ EarlyStart
  /\ peers_file = NoFile
  /\ direct_peers \in DirectLists
  /\ BroadcastStart
  /\ ImageStart
  /\ EventStart

BroadcastNext == BroadcastInterval

BroadcastSpec == BroadcastInit /\ [][BroadcastNext]_vars

\* -------------------------------------------------- broadcaster: claims
\* the datagrams of the last interval addressed to a target
SentTo(target) == { i \in 1..Len(datagrams) : datagrams[i].to = target }

\* C31: in every interval one packet goes to the broadcast address and the
\* identical packet to each direct peer; a send that fails for one target
\* (the broadcast address included) does not prevent the sends to the other
\* targets, and the loop goes on with the next interval.
C31_EveryTargetTried ==
  intervals > 0 =>
    /\ \A target \in {BroadcastAddress} \cup Range(direct_peers) :
         target \notin unreachable => Cardinality(SentTo(target)) = 1
    /\ \A i \in 1..Len(datagrams) : datagrams[i].message = Message(intervals)
    /\ intervals < MaxIntervals => ENABLED BroadcastInterval

\* C31 (where it holds): the send to the first direct peer failed; the
\* broadcast address and the second direct peer got the packet
C31_Witness ==
  /\ intervals > 0
  /\ direct_peers = << <<"2">>, <<"3">> >>
  /\ unreachable = { <<"2">> }
  /\ Cardinality(SentTo(BroadcastAddress)) = 1
  /\ Cardinality(SentTo(<<"3">>)) = 1
  /\ SentTo(<<"2">>) = {}

\* ================================================ history: corrupt lines
\* The history file as lines of text. A line is a record as to_dict and
\* json.dumps write it ("ok"), or one that is not: cut off in the middle
\* ("truncated"), an object without its job_id ("no job_id"), a JSON array
\* ("array"), a record whose start_time is null ("null start_time"), or
\* bytes that are no UTF-8 ("bad bytes").
LineForms == {"ok", "truncated", "no job_id", "array", "null start_time",
              "bad bytes"}
Line(form, entry) == [form |-> form, entry |-> entry]

\* `for line in f` yields the line: the text layer decodes it
Decodes(line) == line.form # "bad bytes"

\* json.loads(line) and JobHistoryEntry.from_dict(data) return: the line is
\* JSON, an object, and has the keys from_dict subscripts; from_dict checks
\* no value
Parses(line) == line.form \in {"ok", "null start_time"}

\* the entry from_dict returns
from_dict(line) ==
  IF line.form = "null start_time"
  THEN [line.entry EXCEPT !.start_time = Null] ELSE line.entry

\* json.dumps(entry.to_dict()): the line written for an entry
to_line(entry) ==
  Line(IF entry.start_time = Null THEN "null start_time" ELSE "ok", entry)

NotRaised == "none"
Outcome(raised, value, file) == [raised |-> raised, value |-> value, file |-> file]

\* read_history on the lines: the loop over the lines with its inner try
\* (a line that does not parse, or whose filter raises TypeError, is
\* skipped), then the sort and the limit outside every try
read_lines(lines, limit, role, peer, success_only, failed_only, since) ==
  LET keep(line) ==
        /\ Parses(line)
        /\ ~(Truthy(since) /\ from_dict(line).start_time = Null)
        /\ Kept(from_dict(line), role, peer, success_only, failed_only, since)
      kept == SelectSeq(lines, keep)
      entries == [i \in 1..Len(kept) |-> from_dict(kept[i])]
  IN IF \E i \in 1..Len(lines) : ~Decodes(lines[i])
     THEN Outcome("UnicodeDecodeError", <<>>, lines)
     ELSE IF Len(entries) >= 2 /\ \E i \in 1..Len(entries) : entries[i].start_time = Null
     THEN Outcome("TypeError", <<>>, lines)
     ELSE Outcome(NotRaised,
                  read_history(entries, limit, NoFilter, NoFilter, FALSE, FALSE, Null),
                  lines)

\* get_history_stats on the lines
stats_lines(lines) ==
  LET read == read_lines(lines, Null, NoFilter, NoFilter, FALSE, FALSE, Null)
  IN IF read.raised # NotRaised THEN read
     ELSE Outcome(NotRaised, get_history_stats(read.value), lines)

\* update_job_completion on the lines
update_lines(lines, job_id, exit_code, runtime_seconds, error, output_file_count, clock) ==
  LET read == read_lines(lines, Null, NoFilter, NoFilter, FALSE, FALSE, Null)
      patched == patch_entries(read.value, job_id, exit_code, runtime_seconds,
                               error, output_file_count, clock)
      written == write_history(patched.entries)
  IN IF read.raised # NotRaised THEN read
     ELSE IF patched.updated
     THEN Outcome(NotRaised, <<>>, [i \in 1..Len(written) |-> to_line(written[i])])
     ELSE Outcome(NotRaised, <<>>, lines)

\* the lines a file may hold: an open record, a completed one, and the
\* malformed lines
GoodEntries ==
  { HistEntry("a", "plug", 1, "open"), HistEntry("c", "plug", 2, "succeeded") }
FileLines ==
  { Line(form, e) : form \in {"ok", "null start_time"}, e \in GoodEntries } \cup
  { Line(form, HistEntry("a", "plug", 1, "open")) :
      form \in {"truncated", "no job_id", "array", "bad bytes"} }
LineFiles == UNION { [1..n -> FileLines] : n \in 0..MaxLines }

ReadLines ==
  /\ call = NoCall
  /\ \E lines \in LineFiles, since \in Sinces :
       /\ call' = [op |-> "read_history", lines |-> lines, since |-> since]
       /\ ret' = read_lines(lines, Null, NoFilter, NoFilter, FALSE, FALSE, since)
  /\ UNCHANGED << workerVars, discVars, sideVars >>

StatsLines ==
  /\ call = NoCall
  /\ \E lines \in LineFiles :
       /\ call' = [op |-> "get_history_stats", lines |-> lines, since |-> Null]
       /\ ret' = stats_lines(lines)
  /\ UNCHANGED << workerVars, discVars, sideVars >>

UpdateLines ==
  /\ call = NoCall
  /\ \E lines \in LineFiles :
       /\ call' = [op |-> "update_job_completion", lines |-> lines, since |-> Null]
       /\ ret' = update_lines(lines, "j1", 0, 1, NoError, 0, 3)
  /\ UNCHANGED << workerVars, discVars, sideVars >>

LinesNext == ReadLines \/ StatsLines \/ UpdateLines

LinesSpec == Init /\ [][LinesNext]_vars

\* ------------------------------------------------ corrupt lines: claims
\* the records of the well-formed lines of a file, in the order of the file
WellFormed(lines) ==
  LET ok(line) == line.form = "ok"
      good == SelectSeq(lines, ok)
  IN [i \in 1..Len(good) |-> good[i].entry]

\* the call was made on a file with a line that is no record
OnCorruptFile ==
  /\ call.op \in {"read_history", "get_history_stats", "update_job_completion"}
  /\ \E i \in 1..Len(call.lines) : call.lines[i].form # "ok"

\* C32: a malformed line never aborts read_history, get_history_stats or
\* update_job_completion: each returns what it returns on the well-formed
\* records alone, and update_job_completion patches among them.
C32_CorruptLinesSkipped ==
  OnCorruptFile =>
    /\ ret.raised = NotRaised
    /\ call.op = "read_history" =>
         ret.value = read_history(WellFormed(call.lines), Null, NoFilter,
                                  NoFilter, FALSE, FALSE, call.since)
    /\ call.op = "get_history_stats" =>
         ret.value = get_history_stats(WellFormed(call.lines))
    /\ call.op = "update_job_completion" =>
         read_all(WellFormed(ret.file)) =
           read_all(update_job_completion(WellFormed(call.lines), "j1", 0, 1,
                                          NoError, 0, 3))

\* C32 (where it holds): update_job_completion on a file whose open record
\* stands between a truncated line and a line without job_id patches the
\* record
C32_Witness ==
  /\ call.op = "update_job_completion"
  /\ Len(call.lines) = 3
  /\ call.lines[1].form = "truncated"
  /\ call.lines[2] = Line("ok", HistEntry("a", "plug", 1, "open"))
  /\ call.lines[3].form = "no job_id"
  /\ ret.raised = NotRaised
  /\ Len(ret.file) = 1
  /\ ret.file[1].form = "ok" /\ ret.file[1].entry.end_time = 3
     /\ ret.file[1].entry.success = "true"

\* ========================================== executor: the image of a job
\* One execute_streaming call, step by step. What Docker knows of the job's
\* image: it is present locally ("local"); it is not, and images.pull
\* fetches it ("pullable"), or raises ImageNotFound because the registry has
\* no such repository or tag ("not in registry"), or raises another APIError
\* because the registry cannot be reached or refuses ("registry unreachable").
ImageStates == {"local", "pullable", "not in registry", "registry unreachable"}

\* _ensure_image(image): the exception it ends with ("none": it returns)
ensure_image(image) ==
  CASE image \in {"local", "pullable"} -> "none"
    [] image = "not in registry" -> "ImageNotFound"
    [] OTHER -> "APIError"

\* the except clauses of execute_streaming: the result for an exception
except_result(job_id, exception) ==
  IF exception = "ImageNotFound"
  THEN JobResult(job_id, 0 - 1, <<>>, "Docker image not found")
  ELSE JobResult(job_id, 0 - 1, <<>>, "start failed")

\* tempfile.mkdtemp and _prepare_workspace
ImagePrepare ==
  /\ xpc = "idle"
  /\ \E job_id \in JobIds, image \in ImageStates :
       xjob' = [job_id |-> job_id, image |-> image]
  /\ xworkspace' = "present"
  /\ xpc' = "ensure_image"
  /\ UNCHANGED << xtracked, xresult, started >>

\* self._ensure_image(image), and the except clause when it raises
ImageEnsure ==
  /\ xpc = "ensure_image"
  /\ LET exception == ensure_image(xjob.image)
     IN IF exception = "none"
        THEN /\ xpc' = "run"
             /\ UNCHANGED xresult
        ELSE /\ xpc' = "finally"
             /\ xresult' = except_result(xjob.job_id, exception)
  /\ UNCHANGED << xjob, xworkspace, xtracked, started >>

\* containers.run(**run_kwargs) and the entry in _running_containers
ImageRun ==
  /\ xpc = "run"
  /\ \E require_gpu \in BOOLEAN :
       started' = Append(started, run_kwargs(cconfig, "python:3.11-slim", require_gpu))
  /\ xtracked' = xtracked \cup {xjob.job_id}
  /\ xpc' = "stream"
  /\ UNCHANGED << xjob, xworkspace, xresult >>

\* the log stream ends and the result is built
ImageStreamEnd ==
  /\ xpc = "stream"
  /\ \E code \in {0, 1} : xresult' = JobResult(xjob.job_id, code, <<>>, NoError)
  /\ xpc' = "finally"
  /\ UNCHANGED << xjob, xworkspace, xtracked, started >>

\* finally: the pop from _running_containers and shutil.rmtree(workspace)
ImageFinally ==
  /\ xpc = "finally"
  /\ xtracked' = xtracked \ {xjob.job_id}
  /\ xworkspace' = "deleted"
  /\ xpc' = "returned"
  /\ UNCHANGED << xjob, xresult, started >>

ImageNext ==
  /\ ImagePrepare \/ ImageEnsure \/ ImageRun \/ ImageStreamEnd \/ ImageFinally
  /\ UNCHANGED << workerVars, call, ret, discVars, histVars, sender_history,
                  cconfig, stopVars, directVars, eventVars >>

ImageSpec == CapInit /\ [][ImageNext]_vars

\* --------------------------------------------------------- image: claims
\* the image of the job is not present locally and cannot be pulled
ImageUnavailable == xjob.image \in {"not in registry", "registry unreachable"}

\* C33: when the image of the job is not present locally and cannot be
\* pulled, the executor returns a result with exit_code -1 and the error
\* "Docker image not found: ..."; it starts no container, registers nothing
\* in the running-containers table and removes the workspace.
C33_ImageNotFoundResult ==
  ImageUnavailable =>
    /\ started = <<>>
    /\ xtracked = {}
    /\ xpc = "returned" =>
         /\ xresult.exit_code = 0 - 1
         /\ xresult.error = "Docker image not found"
         /\ xworkspace = "deleted"

\* C33 (where it holds): the registry has no such image; the call returned
\* the "Docker image not found" result and the workspace is gone
C33_Witness ==
  /\ xjob.image = "not in registry"
  /\ xpc = "returned"
  /\ xresult = JobResult(xjob.job_id, 0 - 1, <<>>, "Docker image not found")
  /\ started = <<>> /\ xtracked = {} /\ xworkspace = "deleted"

\* ============================================ discovery: the two callbacks
\* The receive thread (_listen_loop, _handle_message) and the reaper
\* (_cleanup_loop) as threads. _handle_message updates the peer map under
\* the lock, releases it and then calls on_peer_joined; the reaper pops and
\* calls on_peer_left with the lock held. The heartbeats are the member's,
\* well-formed and signed.
PeerEvent(kind, name) == [kind |-> kind, name |-> name]

\* _handle_message, the `with self._lock` block: is_new and the insertion
HandleLocked ==
  /\ listener.pc = "recvfrom"
  /\ Len(events) < MaxCallbacks
  /\ listener' = [pc |-> "callback", is_new |-> peers[Member] = NoPeer]
  /\ peers' = [peers EXCEPT ![Member] = [last_seen |-> now]]
  /\ UNCHANGED << now, next_pass, events >>

\* _handle_message after the lock: if is_new and self.on_peer_joined
HandleCallback ==
  /\ listener.pc = "callback"
  /\ events' = IF listener.is_new
               THEN Append(events, PeerEvent("joined", Member)) ELSE events
  /\ listener' = [pc |-> "recvfrom", is_new |-> FALSE]
  /\ UNCHANGED << now, next_pass, peers >>

\* one pass of _cleanup_loop: with the lock held the dead entries are popped
\* and on_peer_left is called for each
ReaperPass ==
  /\ now = next_pass
  /\ LET dead == peers[Member] # NoPeer /\ ~is_alive(peers[Member], now)
     IN /\ peers' = [peers EXCEPT ![Member] = IF dead THEN NoPeer ELSE @]
        /\ events' = IF dead THEN Append(events, PeerEvent("left", Member))
                     ELSE events
  /\ next_pass' = now + peer_timeout \div 2
  /\ UNCHANGED << now, listener >>

\* a second passes; a pass of the reaper that is due comes first
EventTick ==
  /\ now < MaxTime
  /\ now < next_pass
  /\ now' = now + 1
  /\ UNCHANGED << next_pass, peers, listener, events >>

EventNext ==
  /\ HandleLocked \/ HandleCallback \/ ReaperPass \/ EventTick
  /\ UNCHANGED << ticks, pc, req, sent, peerOpen, running_jobs,
                  running_containers, cont, workspace, exec, result, history,
                  status, cres, callbacks, auth, call, ret, peer_timeout,
                  sending, stopped_at, notified, dgram, EarlyVars, directVars,
                  imageVars >>

EventSpec == DiscInit /\ [][EventNext]_vars

\* ----------------------------------------------------- callbacks: claims
\* the calls made for a name, in order
EventsOf(name) ==
  LET of(e) == e.name = name
  IN SelectSeq(events, of)

\* joined, left, joined, ...
Alternates(s) ==
  \A k \in 1..Len(s) : s[k].kind = IF k % 2 = 1 THEN "joined" ELSE "left"

\* C34: for each peer name the calls of on_peer_joined and on_peer_left
\* alternate strictly, beginning with on_peer_joined, under every
\* interleaving of the receive thread and the reaper: one on_peer_joined per
\* transition of the name from absent to present, one on_peer_left per
\* eviction, in that order; so with the receive thread outside
\* _handle_message the last call for a name is on_peer_joined exactly when
\* the name is in the peer map.
C34_CallbacksAlternate ==
  /\ Alternates(EventsOf(Member))
  /\ listener.pc = "recvfrom" =>
       ((peers[Member] # NoPeer) <=> (Len(EventsOf(Member)) % 2 = 1))

\* C34 (where it holds): the member joined, was evicted and joined again,
\* each callback called before the next change of the peer map
C34_Witness ==
  /\ listener.pc = "recvfrom"
  /\ peers[Member] # NoPeer
  /\ events = << PeerEvent("joined", Member), PeerEvent("left", Member),
                 PeerEvent("joined", Member) >>

\* ============================================== worker: two jobs at once
\* The worker with a job submitted on each of its connections, the second
\* accepted while the first is still handled. Both requests are well-formed
\* and signed by the same sender; the job_id of each is any of the job ids:
\* a submitter may send the same signed payload twice.
ConcurrentSubmission(c) ==
  /\ UNCHANGED others
  /\ NextToAccept(c)
  /\ \E job_id \in JobIds :
       LET r == Request(c, "J", job_id, "a", "none", now)
       IN /\ deserialize_job(r, now) = "ok"
          /\ auth' = r
          /\ req' = [req EXCEPT ![c] = [kind |-> "J", job_id |-> job_id,
                                        who |-> "a", at |-> now,
                                        accepted |-> TRUE]]
  /\ pc' = [pc EXCEPT ![c] = "register"]
  /\ UNCHANGED << now, ticks, sent, peerOpen, running_jobs, running_containers,
                  cont, workspace, exec, result, history, status, cres,
                  callbacks >>

PairNext ==
  \E c \in Conns :
    \/ ConcurrentSubmission(c)
    \/ RegisterJob(c)
    \/ AppendJobStart(c)
    \/ NotifyBusy(c)
    \/ ExecStart(c)
    \/ TrackContainer(c)
    \/ StreamEnd(c)
    \/ StreamError(c)
    \/ ExitCode(c)
    \/ ExecFinally(c)
    \/ Completion(c)
    \/ PopJob(c)
    \/ NotifyIdle(c)
    \/ SendResult(c)
    \/ ContainerExit(c)

PairSpec == Init /\ [][PairNext]_vars

\* ------------------------------------------------------ two jobs: claims
\* the container of the job of connection c is running and tracked: the
\* handler is in the streaming loop of execute_streaming
Streaming(c) == pc[c] = "stream" /\ cont[c].state = "running"

\* C35: while the container of a job is running, the running-jobs table and
\* the running-containers table each hold an entry under the job's id that
\* refers to this job and this container (so a kill naming the job reaches
\* its container), also when two accepted submissions carry the same job_id:
\* the completion of one neither removes nor redirects the entry of the
\* other.
C35_TablesFollowJobs ==
  \A c \in Conns :
    Streaming(c) =>
      /\ running_jobs[req[c].job_id] # NoJob
      /\ running_jobs[req[c].job_id].conn = c
      /\ running_containers[req[c].job_id] = c

\* C35 (where it holds): two jobs with different ids run at the same time
\* and each table holds both, each entry referring to its own job
C35_Witness ==
  /\ Streaming(1) /\ Streaming(2)
  /\ req[1].job_id # req[2].job_id
  /\ \A c \in Conns :
       /\ running_jobs[req[c].job_id] # NoJob
       /\ running_jobs[req[c].job_id].conn = c
       /\ running_containers[req[c].job_id] = c

\* ------------------------------------------------ worker status: claims
\* a job is executing on connection c: its container runs
Executing(c) == cont[c].state = "running"

\* no handler thread is in progress
NoHandler == \A c \in Conns : pc[c] \in {"idle", "closed"}

TableEmpty == \A j \in JobIds : running_jobs[j] = NoJob

\* C36: under every interleaving of job dispatches and completions the last
\* status passed to on_status_changed is "busy" while a job is executing, and
\* "idle" once the running-jobs table is empty and no handler is in progress.
C36_StatusFollowsJobs ==
  /\ (\E c \in Conns : Executing(c)) => status = "busy"
  /\ (TableEmpty /\ NoHandler) => status = "idle"

\* C36 (where it holds): two jobs with different ids ran at the same time;
\* the first has completed while the second still executes, and the status
\* is still "busy"
C36_Witness ==
  /\ req[1].kind = "J" /\ req[2].kind = "J"
  /\ req[1].job_id # req[2].job_id
  /\ pc[1] = "closed" /\ cont[1].state = "removed"
  /\ Executing(2)
  /\ status = "busy"

\* ================================================== jobs: altered payloads
\* A payload as serialize_job wrote it under the group secret, with one
\* field of its "job" object replaced afterwards and the "auth" object left
\* as it was, given to deserialize_job.
ContentFields == {"sender", "filename", "code", "args", "files", "require_gpu"}

\* the values a field of the payload can be replaced with
Replacements(field) ==
  CASE field = "sender" -> Names
    [] field = "filename" -> {"e.py", "x.sh"}
    [] field = "code" -> { b64encode(code) : code \in Codes }
    [] field = "args" -> ArgLists
    [] field = "files" ->
         { [k \in DOMAIN files |-> b64encode(files[k])] : files \in JobFiles }
    [] OTHER -> BOOLEAN

AlteredJob ==
  /\ call = NoCall
  /\ \E job \in Jobs, field \in ContentFields :
       \E value \in Replacements(field) :
         LET signed == serialize_job(job, GroupSecret)
             payload == [signed EXCEPT ![field] = value]
             error == deserialize_job(payload, now)
         IN /\ payload # signed
            /\ call' = [op |-> "altered_job", job |-> job, field |-> field]
            /\ ret' = [ kind |-> IF error = "ok" THEN "job" ELSE "ValueError",
                        error |-> error,
                        job |-> IF error = "ok" THEN JobOf(payload) ELSE <<>> ]
  /\ UNCHANGED << workerVars, discVars, sideVars >>

AlteredNext == AlteredJob

AlteredSpec == Init /\ [][AlteredNext]_vars

\* ----------------------------------------------- altered payloads: claims
\* C37: the authentication of a job covers its content: a payload whose job
\* fields differ from what the submitter signed, with the original job_id,
\* timestamp and hmac, is rejected by deserialize_job with an
\* authentication error.
C37_ContentAuthenticated ==
  call.op = "altered_job" =>
    (ret.kind = "ValueError" /\ ret.error \in AuthErrors)

\* C37 (its case): the code of a signed job was replaced and the payload
\* given to deserialize_job, which returned a job with the other code
C37_Witness ==
  /\ call.op = "altered_job"
  /\ call.field = "code"
  /\ ret.kind = "job"
  /\ ret.job.job_id = call.job.job_id
  /\ ret.job.code # call.job.code

\* ====================================================== history: one caller
\* append_job_start and update_job_completion called one after the other by
\* a single thread, each call run to its end, on the file the calls
\* themselves have written. update_job_completion is given every exit code
\* and error the executor can report.
CompletionErrors == {NoError, "timeout"}
ExitCodes == {0, 1}

\* append_job_start(job_id, ..., role="plug")
LogJobStart ==
  /\ Len(history) < MaxAppends
  /\ \E job_id \in JobIds :
       /\ call' = [op |-> "append_job_start", job_id |-> job_id,
                   before |-> history]
       /\ history' = Append(history, JobHistoryEntry(job_id, "c", "plug", now))
  /\ UNCHANGED << now, ticks, pc, req, sent, peerOpen, running_jobs,
                  running_containers, cont, workspace, exec, result, status,
                  cres, callbacks, auth, ret, discVars, sideVars >>

\* update_job_completion(job_id, exit_code, runtime_seconds, error, count)
LogJobCompletion ==
  /\ \E job_id \in JobIds, exit_code \in ExitCodes, error \in CompletionErrors :
       /\ call' = [op |-> "update_job_completion", job_id |-> job_id,
                   before |-> history]
       /\ history' = update_job_completion(history, job_id, exit_code, 1,
                                           error, 0, now)
  /\ UNCHANGED << now, ticks, pc, req, sent, peerOpen, running_jobs,
                  running_containers, cont, workspace, exec, result, status,
                  cres, callbacks, auth, ret, discVars, sideVars >>

\* time.time() moves on between two calls
LogTick ==
  /\ HistTick
  /\ UNCHANGED << ticks, pc, req, sent, peerOpen, running_jobs,
                  running_containers, cont, workspace, exec, result, status,
                  cres, callbacks, auth, call, ret, discVars, sender_history,
                  capVars, stopVars, lateVars >>

LogNext == LogJobStart \/ LogJobCompletion \/ LogTick

LogSpec == Init /\ [][LogNext]_vars

\* --------------------------------------------------- one caller: claims
\* the records of a file that belong to a job and are still open
OpenRecords(file, job_id) ==
  { i \in 1..Len(file) : file[i].job_id = job_id /\ file[i].end_time = Null }

\* C38: update_job_completion for a job_id with no open record (a job_id the
\* file does not know, or one whose records are all completed) leaves the
\* history file as it was: nothing added, removed, reordered or modified,
\* and no completed record patched again.
C38_NoOpenRecordNoChange ==
  (/\ call.op = "update_job_completion"
   /\ OpenRecords(call.before, call.job_id) = {})
  => history = call.before

\* C38 (its case): update_job_completion was called for a job whose only
\* record was completed before, next to an open record of another job, and
\* the file is what it was
C38_Witness ==
  /\ call.op = "update_job_completion"
  /\ OpenRecords(call.before, call.job_id) = {}
  /\ \E i \in 1..Len(call.before) :
       /\ call.before[i].job_id = call.job_id
       /\ call.before[i].end_time # Null
  /\ \E i \in 1..Len(call.before) : call.before[i].end_time = Null
  /\ history = call.before

\* a record as append_job_start writes it: no completion field set
OpenRecord(e) ==
  /\ e.end_time = Null
  /\ e.runtime_seconds = Null
  /\ e.exit_code = Null
  /\ e.success = "null"
  /\ e.error = NoError

\* a record after update_job_completion
CompletedRecord(e) ==
  /\ e.end_time # Null
  /\ e.end_time >= e.start_time
  /\ e.success \in {"true", "false"}
  /\ e.success = "true" <=> (e.exit_code = 0 /\ e.error = NoError)

RecordsWellFormed(file) ==
  \A i \in 1..Len(file) : OpenRecord(file[i]) \/ CompletedRecord(file[i])

\* a step that is a call of append_job_start adds one open record behind the
\* others
AppendsOneOpenRecord ==
  (call' # call /\ call'.op = "append_job_start") =>
    /\ Len(history') = Len(history) + 1
    /\ SubSeq(history', 1, Len(history)) = history
    /\ OpenRecord(history'[Len(history')])
    /\ history'[Len(history')].job_id = call'.job_id

\* C39: in every state of the history log each record is open (end_time,
\* runtime_seconds, exit_code, success and error all null) or completed with
\* end_time >= start_time and success = (exit_code = 0 and error is null);
\* append_job_start adds exactly one open record and changes no other.
C39_RecordsOpenOrCompleted ==
  /\ [](RecordsWellFormed(history))
  /\ [][AppendsOneOpenRecord]_vars

\* C39 (its case): the log holds an open record, a record completed with
\* exit code 0 and an error, which is no success, and a third one
C39_Witness ==
  /\ Len(history) = 3
  /\ \E i \in 1..Len(history) : OpenRecord(history[i])
  /\ \E i \in 1..Len(history) :
       /\ CompletedRecord(history[i])
       /\ history[i].exit_code = 0
       /\ history[i].error # NoError
       /\ history[i].success = "false"
  /\ call.op = "append_job_start"

\* ================================================= the direct-peer list
\* Discovery.add_direct_peer and remove_direct_peer, called one after the
\* other on a Discovery that loaded ~/.homie/peers when it was constructed.
\* The file at construction is absent, written by this code, or edited by
\* hand (blank lines, spaces around an IP, an IP listed twice).
PeerFiles ==
  { NoFile,
    TextFile(<<LF>>),
    TextFile(<<"2", LF>>),
    TextFile(<<"3", LF, "2", LF>>),
    TextFile(<<SP, "2", LF, LF, "3", SP, LF>>),
    TextFile(<<"2", LF, "2">>) }

\* the IPs the calls are made with: those of the broadcaster and a longer one
PeerIps == Ips \cup { <<"2", "3">> }

\* add_direct_peer(ip)
add_direct_peer(ip) ==
  /\ call' = [op |-> "add_direct_peer", ip |-> ip, list |-> direct_peers,
              file |-> peers_file]
  /\ IF ~Listed(direct_peers, ip)
     THEN /\ direct_peers' = Append(direct_peers, ip)
          /\ peers_file' = write_direct_peers(Append(direct_peers, ip))
     ELSE UNCHANGED << direct_peers, peers_file >>
  /\ UNCHANGED << workerVars, ret, discVars, EarlyVars, datagrams, unreachable,
                  intervals, imageVars, eventVars >>

\* remove_direct_peer(ip)
remove_direct_peer(ip) ==
  /\ call' = [op |-> "remove_direct_peer", ip |-> ip, list |-> direct_peers,
              file |-> peers_file]
  /\ IF Listed(direct_peers, ip)
     THEN /\ direct_peers' = remove_first(direct_peers, ip)
          /\ peers_file' = IF remove_first(direct_peers, ip) # <<>>
                           THEN write_direct_peers(remove_first(direct_peers, ip))
                           ELSE NoFile
     ELSE UNCHANGED << direct_peers, peers_file >>
  /\ UNCHANGED << workerVars, ret, discVars, EarlyVars, datagrams, unreachable,
                  intervals, imageVars, eventVars >>

DirectInit ==
  /\ WorkerInit
  /\ CallInit
  /\ DiscStart(DefaultPeerTimeout)
  /\ EarlyStart
  /\ \E file \in PeerFiles : DirectStart(file)
  /\ BroadcastStart
  /\ ImageStart
  /\ EventStart

DirectNext ==
  \/ \E ip \in PeerIps : add_direct_peer(ip)
  \/ \E ip \in PeerIps : remove_direct_peer(ip)

DirectSpec == DirectInit /\ [][DirectNext]_vars

\* ------------------------------------------------ direct-peer list: claims
\* how often the list names the IP
Occurrences(list, ip) == Cardinality({ k \in 1..Len(list) : list[k] = ip })

\* C40: after any sequence of add_direct_peer and remove_direct_peer calls
\* add has introduced no duplicate, the peers file lists exactly the list in
\* memory, in order (and is absent when a removal emptied the list), add of
\* a listed IP and remove of an unlisted one change nothing, and a Discovery
\* constructed now loads the same list.
C40_FileFollowsList ==
  /\ load_direct_peers(peers_file) = direct_peers
  /\ call.op = "add_direct_peer" =>
       /\ Listed(call.list, call.ip)
            => (direct_peers = call.list /\ peers_file = call.file)
       /\ ~Listed(call.list, call.ip)
            => (/\ direct_peers = Append(call.list, call.ip)
                /\ Occurrences(direct_peers, call.ip) = 1
                /\ peers_file.exists
                /\ split(peers_file.text) = Append(direct_peers, <<>>))
  /\ call.op = "remove_direct_peer" =>
       /\ ~Listed(call.list, call.ip)
            => (direct_peers = call.list /\ peers_file = call.file)
       /\ Listed(call.list, call.ip)
            => (/\ Occurrences(direct_peers, call.ip)
                     = Occurrences(call.list, call.ip) - 1
                /\ Len(direct_peers) = Len(call.list) - 1
                /\ direct_peers = <<>> => ~peers_file.exists
                /\ direct_peers # <<>>
                     => (/\ peers_file.exists
                         /\ split(peers_file.text) = Append(direct_peers, <<>>)))

\* C40 (its case): the list, loaded from a file, was emptied by a removal and
\* the file is gone
C40_Witness ==
  /\ call.op = "remove_direct_peer"
  /\ call.file.exists
  /\ Listed(call.list, call.ip)
  /\ direct_peers = <<>>
  /\ ~peers_file.exists

====
